---- MODULE Spec2Model ----
(***************************************************************************)
(* Live session coordinator of the quiz platform: the Socket.IO manager    *)
(* (backend/app/socket_manager.py) over the SQLAlchemy tables               *)
(* (backend/app/models.py).                                                 *)
(*                                                                         *)
(* Every Socket.IO event is handled in its own asyncio task.  A handler    *)
(* runs without interruption between two awaits that reach the database;   *)
(* one step of the model is one such stretch: the awaited database         *)
(* operation takes effect and the synchronous code after it runs up to     *)
(* the next database await.  Each handler owns an AsyncSession with        *)
(* expire_on_commit=False: a row it has loaded keeps the loaded attribute  *)
(* values for the rest of the handler, and commit writes only the          *)
(* attributes whose value was changed.                                      *)
(***************************************************************************)
EXTENDS Integers, Sequences, FiniteSets, TLC

(* ------------------------------ bounds -------------------------------- *)
MaxSids == 2        \* connections ever opened
MaxTasks == 2       \* handlers in flight at once
MaxTicks == 1       \* clock readings after the first
MaxPlayers == 2     \* Player rows
MaxAnswers == 2     \* Answer rows
MaxClock == 4       \* clock readings, in ticks, a round is entered with

(* ------------------------- program constants -------------------------- *)
PinLength == 6
MinNameLength == 2
BasePoints == 600
BonusRange == 400
DefaultTimeLimit == 20
MaxPinAttempts == 30
TickSeconds == 5

NoSid == 0
NoTime == -1
NoPlayer == 0
NoPin == ""

ThePin == "111111"
PinInputs == {ThePin, "222222", "12"}
RoleInputs == {"host", "player"}
OptionInputs == {"A", "B"}
QIndexInputs == {0, 1}
NameInputs == {<<"a", "l">>, <<"A", "L", " ">>, <<"x">>}
RaceNames == {<<"a", "l">>, <<"A", "L", " ">>}
TimedNames == {<<"a", "l">>}
BoardNames == {<<"a", "l">>, <<"b", "o">>}
PinSpace == {ThePin, "222222", "333333"}

(* QuizQuestion.options: the options of every question *)
Options == << [id |-> "A", text |-> "first"], [id |-> "B", text |-> "second"] >>

(* Quiz.questions_json of the one quiz *)
Questions ==
    << [question |-> "prompt 0", options |-> Options,
        correct_option_id |-> "A", time_limit_seconds |-> 10],
       [question |-> "prompt 1", options |-> Options,
        correct_option_id |-> "B", time_limit_seconds |-> 10] >>

(* Quiz.questions_json of a second quiz, with other time limits *)
ShortQuestions ==
    << [question |-> "prompt 0", options |-> Options,
        correct_option_id |-> "A", time_limit_seconds |-> 5],
       [question |-> "prompt 1", options |-> Options,
        correct_option_id |-> "B", time_limit_seconds |-> 15] >>

QuizIds == {"quiz1", "quiz2"}
NoQuiz == <<>>

VARIABLES
    sessions,    \* game_sessions table: pin -> row
    players,     \* players table: sequence of rows, the id is the position
    answers,     \* answers table: sequence of rows
    runtime,     \* QuizSocketManager.runtime: pin -> entry
    rooms,       \* Socket.IO rooms: pin -> set of sids
    connected,   \* sids of the open connections
    nextSid,     \* number of connections opened so far
    tasks,       \* the handlers in flight
    now,         \* wall clock, seconds
    out,         \* events emitted by the last step
    ended        \* pins whose room has been sent game_ended

vars == <<sessions, players, answers, runtime, rooms, connected, nextSid,
          tasks, now, out, ended>>

(* ------------------------------ strings ------------------------------- *)
LowerChar(c) ==
    CASE c = "A" -> "a"
      [] c = "B" -> "b"
      [] c = "L" -> "l"
      [] c = "O" -> "o"
      [] c = "X" -> "x"
      [] OTHER -> c

Lower(s) == [i \in 1..Len(s) |-> LowerChar(s[i])]

RECURSIVE LStrip(_)
LStrip(s) == IF s # <<>> /\ Head(s) = " " THEN LStrip(Tail(s)) ELSE s

RECURSIVE RStrip(_)
RStrip(s) ==
    IF s # <<>> /\ s[Len(s)] = " " THEN RStrip(SubSeq(s, 1, Len(s) - 1)) ELSE s

Strip(s) == RStrip(LStrip(s))

(* ------------------------------- rows --------------------------------- *)
(* GameSession: created_at and started_at are written and never read, and  *)
(* are left out of the row.                                                 *)
NewSession(quiz) ==
    [quiz_id |-> quiz, status |-> "lobby", current_question_index |-> -1,
     ended_at |-> NoTime]

NoSession ==
    [quiz_id |-> "", status |-> "none", current_question_index |-> -1,
     ended_at |-> NoTime]

NewPlayer(pin, sid, name) ==
    [session_id |-> pin, sid |-> sid, name |-> name, score |-> 0]

NewAnswer(pin, pid, qidx, opt, correct, points, ms) ==
    [session_id |-> pin, player_id |-> pid, question_index |-> qidx,
     selected_option_id |-> opt, is_correct |-> correct,
     points_awarded |-> points, response_time_ms |-> ms]

EmptyRuntime ==
    [exists |-> FALSE, host_sid |-> NoSid, question_started_at |-> NoTime,
     answered |-> {}]

(* self.runtime.setdefault(pin, {}) *)
RuntimeSetDefault(rt) == [rt EXCEPT !.exists = TRUE]

(* select(GameSession).where(GameSession.pin == pin) *)
SelectSession(pin) == IF pin \in DOMAIN sessions THEN sessions[pin] ELSE NoSession

(* select(Quiz).where(Quiz.id == session.quiz_id) *)
SelectQuiz(quiz_id) ==
    IF quiz_id \notin QuizIds THEN NoQuiz
    ELSE IF quiz_id = "quiz1" THEN Questions ELSE ShortQuestions

PlayerIds == 1..Len(players)

(* ------------------------------ events -------------------------------- *)
ToSid(kind, sid, data) == [kind |-> kind, sid |-> sid, room |-> NoPin, data |-> data]
ToRoom(kind, pin, data) == [kind |-> kind, sid |-> NoSid, room |-> pin, data |-> data]

(* the response of a REST endpoint *)
HttpResponse(status, data) ==
    [kind |-> "http", sid |-> NoSid, room |-> NoPin,
     data |-> [status |-> status, leaderboard |-> data]]

ErrorEvent(sid, detail) == ToSid("error", sid, [detail |-> detail])

(* the rooms that the events evs send kind to *)
RoomsSent(kind, evs) ==
    {evs[i].room : i \in {j \in 1..Len(evs) : evs[j].kind = kind /\ evs[j].room # NoPin}}

(* sio.emit: the events of this step *)
Emit(evs) ==
    /\ out' = evs
    /\ ended' = ended \cup RoomsSent("game_ended", evs)

(* ------------------------------ tasks --------------------------------- *)
IdleTask ==
    [op |-> "idle", pc |-> "idle", sid |-> NoSid, pin |-> NoPin, role |-> "",
     name |-> <<>>, qidx |-> -1, opt |-> "", sess |-> NoSession, dirty |-> {},
     pid |-> NoPlayer, loaded |-> <<>>, points |-> 0, correct |-> 0, ms |-> 0,
     next_index |-> -1, board |-> <<>>, order |-> <<>>, k |-> 0]

TaskIds == 1..MaxTasks

(* the free slot a new handler takes *)
FreeSlot(t) ==
    /\ tasks[t].op = "idle"
    /\ \A u \in TaskIds : u < t => tasks[u].op # "idle"

Init ==
    /\ sessions = [p \in {ThePin} |-> NewSession("quiz1")]
    /\ players = <<>>
    /\ answers = <<>>
    /\ runtime = [p \in {ThePin} |-> EmptyRuntime]
    /\ rooms = [p \in {ThePin} |-> {}]
    /\ connected = {}
    /\ nextSid = 0
    /\ tasks = [t \in TaskIds |-> IdleTask]
    /\ now = 0
    /\ out = <<>>
    /\ ended = {}

(* connect: a new connection gets a fresh sid and is told it *)
Connect ==
    /\ nextSid < MaxSids
    /\ nextSid' = nextSid + 1
    /\ connected' = connected \cup {nextSid + 1}
    /\ Emit(<<ToSid("connected", nextSid + 1, [sid |-> nextSid + 1])>>)
    /\ UNCHANGED <<sessions, players, answers, runtime, rooms, tasks, now>>

(* time.time() / datetime.utcnow() move on *)
Tick ==
    /\ now < MaxTicks * TickSeconds
    /\ now' = now + TickSeconds
    /\ out' = <<>>
    /\ UNCHANGED <<sessions, players, answers, runtime, rooms, connected, nextSid,
                   tasks, ended>>

(* ------------------------- handler plumbing --------------------------- *)
InFlight(ops) == Cardinality({u \in TaskIds : tasks[u].op \in ops})

Begin(t, op, pc, sid, pin) ==
    [IdleTask EXCEPT !.op = op, !.pc = pc, !.sid = sid, !.pin = pin]

Upd(t, rec) == tasks' = [tasks EXCEPT ![t] = rec]

Done(t) == tasks' = [tasks EXCEPT ![t] = IdleTask]

(* a commit that writes nothing *)
WriteNothing(row, obj, dirty) == row

(* flush: UPDATE ... SET only the attributes whose value was changed *)
WriteRow(row, obj, dirty) ==
    [c \in DOMAIN row |-> IF c \in dirty THEN obj[c] ELSE row[c]]

(* attribute history: an attribute set to the value it was loaded with is clean *)
Changed(row, obj, cols) == {c \in cols : obj[c] # row[c]}

(* rows of a query merged into the identity map: a loaded row is not refreshed *)
Merge(loaded, ids) ==
    [i \in (DOMAIN loaded) \cup ids |->
        IF i \in DOMAIN loaded THEN loaded[i] ELSE players[i]]

(* the host check with the comparison lost: any connection passes *)
IsHostAnyone(rt, sid) == TRUE

(* the host check passed also while no host has joined *)
IsHostOrUnset(rt, sid) == rt.host_sid \in {sid, NoSid}

(* the host check of start_game, next_question and end_game *)
IsHost(rt, sid) == rt.host_sid = sid

(* questions[i] with Python's indexing *)
PyIndex(seq, i) == IF i < 0 THEN seq[Len(seq) + 1 + i] ELSE seq[i + 1]

Max(a, b) == IF a > b THEN a ELSE b
Min(a, b) == IF a < b THEN a ELSE b

(* the scoring with the clamp of the speed ratio lost *)
PointsUnclamped(correct, elapsed, limit) ==
    IF correct = 1
    THEN BasePoints + (BonusRange * (limit - elapsed)) \div limit
    ELSE 0

(* the scoring of submit_answer: int(600 + speed_ratio * 400) *)
Points(correct, elapsed, limit) ==
    IF correct = 1
    THEN BasePoints + (BonusRange * Max(0, Min(limit, limit - elapsed))) \div limit
    ELSE 0

(* ----------------------------- disconnect ----------------------------- *)
(* disconnect, lines 28-30: select(Player).where(Player.sid == sid).  The  *)
(* server drops the sid from its rooms when the handler returns.           *)
Disconnect(t, sid) ==
    /\ FreeSlot(t)
    /\ sid \in connected
    /\ connected' = connected \ {sid}
    /\ LET cands == {i \in PlayerIds : players[i].sid = sid} IN
        IF cands = {}
        THEN /\ Done(t)
             /\ rooms' = [p \in DOMAIN rooms |-> rooms[p] \ {sid}]
        ELSE /\ \E i \in cands :
                  Upd(t, [Begin(t, "disconnect", "d_commit", sid, NoPin)
                             EXCEPT !.pid = i])
             /\ UNCHANGED rooms
    /\ out' = <<>>
    /\ UNCHANGED <<sessions, players, answers, runtime, nextSid, now, ended>>

(* disconnect, lines 31-33: player.sid = None; commit *)
DisconnectCommit(t) ==
    /\ tasks[t].pc = "d_commit"
    /\ players' = [players EXCEPT ![tasks[t].pid].sid = NoSid]
    /\ rooms' = [p \in DOMAIN rooms |-> rooms[p] \ {tasks[t].sid}]
    /\ Done(t)
    /\ out' = <<>>
    /\ UNCHANGED <<sessions, answers, runtime, connected, nextSid, now, ended>>

(* ------------------------------ join_room ----------------------------- *)
(* the host handle kept by the first host to join *)
HostJoinFirst(rt, sid) ==
    IF rt.host_sid = NoSid
    THEN [RuntimeSetDefault(rt) EXCEPT !.host_sid = sid]
    ELSE RuntimeSetDefault(rt)

(* join_room, lines 56-57: runtime["host_sid"] = sid *)
HostJoin(rt, sid) == [RuntimeSetDefault(rt) EXCEPT !.host_sid = sid]

PlayerJoinsPending ==
    Cardinality({u \in TaskIds : tasks[u].op = "join_room"
                                   /\ tasks[u].pc \in {"j_player", "j_commit"}})

(* join_room, lines 36-65: the PIN check, the session lookup, enter_room,  *)
(* the host branch and the name check.                                      *)
JoinRoom(t, sid, pin, role, rawname) ==
    LET name == Strip(rawname)
        session == SelectSession(pin)
        me == [Begin(t, "join_room", "j_player", sid, pin)
                  EXCEPT !.role = role, !.name = name, !.sess = session]
    IN
    /\ FreeSlot(t)
    /\ sid \in connected
    /\ role = "player" => Len(players) + PlayerJoinsPending < MaxPlayers
    /\ IF Len(pin) # PinLength
       THEN /\ Emit(<<ErrorEvent(sid, "Invalid PIN")>>)
            /\ UNCHANGED <<tasks, rooms, runtime>>
       ELSE IF session = NoSession
       THEN /\ Emit(<<ErrorEvent(sid, "Game not found")>>)
            /\ UNCHANGED <<tasks, rooms, runtime>>
       ELSE /\ rooms' = [rooms EXCEPT ![pin] = @ \cup {sid}]
            /\ IF role = "host"
               THEN /\ runtime' = [runtime EXCEPT ![pin] = HostJoin(@, sid)]
                    /\ Emit(<<ToSid("join_success", sid, [pin |-> pin, role |-> "host"])>>)
                    /\ Upd(t, [me EXCEPT !.pc = "l_players"])
               ELSE IF Len(name) < MinNameLength
               THEN /\ Emit(<<ErrorEvent(sid, "Name too short")>>)
                    /\ UNCHANGED <<tasks, runtime>>
               ELSE /\ out' = <<>>
                    /\ Upd(t, me)
                    /\ UNCHANGED <<runtime, ended>>
    /\ UNCHANGED <<sessions, players, answers, connected, nextSid, now>>

(* the name comparison with the lower-casing lost *)
SameNameExact(a, b) == a = b

(* join_room, line 68: func.lower(Player.name) == player_name.lower() *)
SameName(a, b) == Lower(a) = Lower(b)

(* join_room, lines 67-74: find the player by lower-cased name, or make one *)
JoinPlayer(t) ==
    LET me == tasks[t]
        cands == {i \in PlayerIds : /\ players[i].session_id = me.pin
                                     /\ SameName(players[i].name, me.name)}
    IN
    /\ me.pc = "j_player"
    /\ IF cands = {}
       THEN Upd(t, [me EXCEPT !.pc = "j_commit", !.pid = NoPlayer])
       ELSE \E i \in cands :
              Upd(t, [me EXCEPT !.pc = "j_commit", !.pid = i,
                                !.loaded = (i :> [players[i] EXCEPT !.sid = me.sid]),
                                !.dirty = IF players[i].sid # me.sid THEN {"sid"} ELSE {}])
    /\ out' = <<>>
    /\ UNCHANGED <<sessions, players, answers, runtime, rooms, connected, nextSid,
                   now, ended>>

(* join_room, lines 76-77: commit, then join_success *)
JoinCommit(t) ==
    LET me == tasks[t]
        newid == Len(players) + 1
        row == NewPlayer(me.pin, me.sid, me.name)
    IN
    /\ me.pc = "j_commit"
    /\ IF me.pid = NoPlayer
       THEN /\ players' = Append(players, row)
            /\ Upd(t, [me EXCEPT !.pc = "l_players", !.pid = newid,
                                 !.loaded = (newid :> row), !.dirty = {}])
       ELSE /\ players' = [players EXCEPT ![me.pid] =
                              WriteRow(@, me.loaded[me.pid], me.dirty)]
            /\ Upd(t, [me EXCEPT !.pc = "l_players", !.dirty = {}])
    /\ Emit(<<ToSid("join_success", me.sid,
                    [pin |-> me.pin, player_name |-> me.name, role |-> "player"])>>)
    /\ UNCHANGED <<sessions, answers, runtime, rooms, connected, nextSid, now>>

(* ------------------- _emit_lobby, snapshot, leaderboard --------------- *)
SessionPlayers(pin) == {i \in PlayerIds : players[i].session_id = pin}

(* the ids of a set of rows in the order the table returns them *)
RECURSIVE InOrder(_)
InOrder(ids) ==
    IF ids = {} THEN <<>>
    ELSE LET m == CHOOSE i \in ids : \A j \in ids : i <= j
         IN <<m>> \o InOrder(ids \ {m})

Roster(loaded, ids) ==
    LET o == InOrder(ids) IN
    [n \in 1..Len(o) |-> [id |-> o[n], name |-> loaded[o[n]].name,
                          score |-> loaded[o[n]].score]]

(* the snapshot left out: the join ends with the lobby_update *)
SnapshotNone(session) == "done"

(* _emit_game_snapshot_to_sid, lines 245 and 264: what the snapshot does next *)
SnapshotPc(session) ==
    IF session.status = "in_progress" /\ session.current_question_index >= 0
    THEN "g_quiz"
    ELSE IF session.status = "finished" THEN "lb_players" ELSE "done"

(* _emit_lobby, lines 219-230.  Its select of the session returns the      *)
(* object the handler already holds, with the attributes it was loaded     *)
(* with; the players not yet loaded are read now.                           *)
EmitLobby(t) ==
    LET me == tasks[t]
        ids == SessionPlayers(me.pin)
        loaded == Merge(me.loaded, ids)
        nxt == SnapshotPc(me.sess)
    IN
    /\ me.pc = "l_players"
    /\ Emit(<<ToRoom("lobby_update", me.pin,
                     [pin |-> me.pin, status |-> me.sess.status,
                      players |-> Roster(loaded, ids)])>>)
    /\ IF nxt = "done" THEN Done(t)
       ELSE Upd(t, [me EXCEPT !.pc = nxt, !.loaded = loaded])
    /\ UNCHANGED <<sessions, players, answers, runtime, rooms, connected, nextSid, now>>

(* the payload made of the whole question of questions_json *)
WholeQuestionPayload(question_index, q) ==
    [question_index |-> question_index, question |-> q]

(* the payload of question_started, lines 234-241 and 251-258 *)
QuestionPayload(question_index, q) ==
    [question_index |-> question_index,
     question |-> [question |-> q.question, options |-> q.options,
                   time_limit_seconds |-> q.time_limit_seconds]]

(* _emit_game_snapshot_to_sid, lines 246-262: the current question, to sid *)
SnapshotQuestion(t) ==
    LET me == tasks[t]
        quiz == SelectQuiz(me.sess.quiz_id)
        idx == me.sess.current_question_index
    IN
    /\ me.pc = "g_quiz"
    /\ IF quiz # NoQuiz /\ idx < Len(quiz)
       THEN Emit(<<ToSid("question_started", me.sid,
                         QuestionPayload(idx, PyIndex(quiz, idx)))>>)
       ELSE out' = <<>> /\ UNCHANGED ended
    /\ Done(t)
    /\ UNCHANGED <<sessions, players, answers, runtime, rooms, connected, nextSid, now>>

(* the leaderboard with the sort lost: the order of the table *)
TableOrder(s) == s

(* result.sort(key=score, reverse=True): stable, by insertion *)
RECURSIVE InsertByScore(_, _)
InsertByScore(sorted, e) ==
    IF sorted = <<>> THEN <<e>>
    ELSE IF Head(sorted).score >= e.score
         THEN <<Head(sorted)>> \o InsertByScore(Tail(sorted), e)
         ELSE <<e>> \o sorted

RECURSIVE SortByScore(_)
SortByScore(s) ==
    IF s = <<>> THEN <<>>
    ELSE InsertByScore(SortByScore(SubSeq(s, 1, Len(s) - 1)), s[Len(s)])

(* the count of a player's answers flagged correct, lines 280-286 *)
CorrectCount(pin, pid) ==
    Cardinality({a \in 1..Len(answers) : /\ answers[a].session_id = pin
                                          /\ answers[a].player_id = pid
                                          /\ answers[a].is_correct = 1})

(* what the caller of compute_leaderboard does with the result: game_ended *)
(* to the joining sid as a snapshot and to the room on finalize, the body   *)
(* of the response for GET /sessions/{pin}/leaderboard                      *)
GameEnded(me, board) ==
    IF me.op = "get_leaderboard"
    THEN HttpResponse(200, board)
    ELSE IF me.op = "join_room"
    THEN ToSid("game_ended", me.sid, [pin |-> me.pin, leaderboard |-> board])
    ELSE ToRoom("game_ended", me.pin, [pin |-> me.pin, leaderboard |-> board])

(* get_leaderboard of main.py: the session lookup; 404 without a session *)
GetLeaderboard(t, pin) ==
    LET session == SelectSession(pin) IN
    /\ FreeSlot(t)
    /\ IF session = NoSession
       THEN /\ Emit(<<HttpResponse(404, <<>>)>>)
            /\ UNCHANGED tasks
       ELSE /\ out' = <<>>
            /\ Upd(t, [Begin(t, "get_leaderboard", "lb_players", NoSid, pin)
                          EXCEPT !.sess = session])
            /\ UNCHANGED ended
    /\ UNCHANGED <<sessions, players, answers, runtime, rooms, connected, nextSid, now>>

(* compute_leaderboard, line 277: the players of the session *)
LeaderboardPlayers(t) ==
    LET me == tasks[t]
        ids == SessionPlayers(me.pin)
    IN
    /\ me.pc = "lb_players"
    /\ IF ids = {}
       THEN /\ Emit(<<GameEnded(me, <<>>)>>)
            /\ Done(t)
       ELSE /\ out' = <<>>
            /\ Upd(t, [me EXCEPT !.pc = "lb_count", !.loaded = Merge(me.loaded, ids),
                                 !.board = <<>>, !.k = 1,
                                 !.order = InOrder(ids)])
            /\ UNCHANGED ended
    /\ UNCHANGED <<sessions, players, answers, runtime, rooms, connected, nextSid, now>>

(* compute_leaderboard, lines 279-296: one count per player, then the sort *)
LeaderboardCount(t) ==
    LET me == tasks[t]
        pid == me.order[me.k]
        entry == [player_id |-> pid, player_name |-> me.loaded[pid].name,
                  score |-> me.loaded[pid].score,
                  correct_answers |-> CorrectCount(me.pin, pid)]
        board == Append(me.board, entry)
    IN
    /\ me.pc = "lb_count"
    /\ IF me.k < Len(me.order)
       THEN /\ out' = <<>>
            /\ Upd(t, [me EXCEPT !.board = board, !.k = me.k + 1])
            /\ UNCHANGED ended
       ELSE /\ Emit(<<GameEnded(me, SortByScore(board))>>)
            /\ Done(t)
    /\ UNCHANGED <<sessions, players, answers, runtime, rooms, connected, nextSid, now>>

(* ------------------------------ start_game ---------------------------- *)
(* start_game, lines 82-93: the session lookup and the host check *)
StartGame(t, sid, pin) ==
    LET session == SelectSession(pin)
        rt == RuntimeSetDefault(runtime[pin])
    IN
    /\ FreeSlot(t)
    /\ sid \in connected
    /\ IF session = NoSession
       THEN /\ Emit(<<ErrorEvent(sid, "Game not found")>>)
            /\ UNCHANGED <<tasks, runtime>>
       ELSE /\ runtime' = [runtime EXCEPT ![pin] = rt]
            /\ IF ~IsHost(rt, sid)
               THEN /\ Emit(<<ErrorEvent(sid, "Only host can start")>>)
                    /\ UNCHANGED tasks
               ELSE /\ out' = <<>>
                    /\ Upd(t, [Begin(t, "start_game", "s_quiz", sid, pin)
                                  EXCEPT !.sess = session])
                    /\ UNCHANGED ended
    /\ UNCHANGED <<sessions, players, answers, rooms, connected, nextSid, now>>

(* start_game, lines 95-104: the quiz lookup, then the new status, index,  *)
(* question-start time and answered sets                                    *)
StartQuiz(t) ==
    LET me == tasks[t]
        quiz == SelectQuiz(me.sess.quiz_id)
        obj == [me.sess EXCEPT !.status = "in_progress",
                               !.current_question_index = 0]
    IN
    /\ me.pc = "s_quiz"
    /\ IF quiz = NoQuiz
       THEN /\ Emit(<<ErrorEvent(me.sid, "Quiz not found")>>)
            /\ Done(t)
            /\ UNCHANGED runtime
       ELSE /\ runtime' = [runtime EXCEPT ![me.pin] =
                              [RuntimeSetDefault(@) EXCEPT !.question_started_at = now,
                                                           !.answered = {}]]
            /\ out' = <<>>
            /\ Upd(t, [me EXCEPT !.pc = "s_commit", !.sess = obj,
                          !.dirty = Changed(me.sess, obj,
                                            {"status", "current_question_index"})])
            /\ UNCHANGED ended
    /\ UNCHANGED <<sessions, players, answers, rooms, connected, nextSid, now>>

(* start_game, lines 105-106: commit, then the first question to the room *)
StartCommit(t) ==
    LET me == tasks[t] IN
    /\ me.pc = "s_commit"
    /\ sessions' = [sessions EXCEPT ![me.pin] = WriteRow(@, me.sess, me.dirty)]
    /\ Emit(<<ToRoom("question_started", me.pin,
                     QuestionPayload(me.sess.current_question_index,
                                     PyIndex(SelectQuiz(me.sess.quiz_id),
                                             me.sess.current_question_index)))>>)
    /\ Done(t)
    /\ UNCHANGED <<players, answers, runtime, rooms, connected, nextSid, now>>

(* ----------------------------- submit_answer -------------------------- *)
(* submit_answer, lines 109-122: the session lookup and the status check *)
SubmitAnswer(t, sid, pin, qidx, opt) ==
    LET session == SelectSession(pin) IN
    /\ FreeSlot(t)
    /\ sid \in connected
    /\ Len(answers) + InFlight({"submit_answer"}) < MaxAnswers
    /\ IF session = NoSession
       THEN /\ Emit(<<ErrorEvent(sid, "Game not found")>>)
            /\ UNCHANGED tasks
       ELSE IF session.status # "in_progress"
       THEN /\ Emit(<<ErrorEvent(sid, "Game has not started")>>)
            /\ UNCHANGED tasks
       ELSE /\ out' = <<>>
            /\ Upd(t, [Begin(t, "submit_answer", "a_player", sid, pin)
                          EXCEPT !.sess = session, !.qidx = qidx, !.opt = opt])
            /\ UNCHANGED ended
    /\ UNCHANGED <<sessions, players, answers, runtime, rooms, connected, nextSid, now>>

(* the session filter of the player lookup lost: any session's row passes *)
InSessionAny(row, pin) == TRUE

(* submit_answer, line 124: Player.session_id == session.id *)
InSession(row, pin) == row.session_id = pin

(* submit_answer, lines 124-127: the player of this sid in the session *)
SubmitPlayer(t) ==
    LET me == tasks[t]
        cands == {i \in PlayerIds : /\ InSession(players[i], me.pin)
                                     /\ players[i].sid = me.sid}
    IN
    /\ me.pc = "a_player"
    /\ IF cands = {}
       THEN /\ Emit(<<ErrorEvent(me.sid, "Player not in session")>>)
            /\ Done(t)
       ELSE /\ out' = <<>>
            /\ \E i \in cands :
                 Upd(t, [me EXCEPT !.pc = "a_quiz", !.pid = i,
                                   !.loaded = (i :> players[i])])
            /\ UNCHANGED ended
    /\ UNCHANGED <<sessions, players, answers, runtime, rooms, connected, nextSid, now>>

(* the index check with the comparison lost: only a missing quiz fails *)
QuestionMismatchNever(quiz, question_index, session) == quiz = NoQuiz

(* submit_answer, line 130: not quiz or question_index != current index *)
QuestionMismatch(quiz, question_index, session) ==
    quiz = NoQuiz \/ question_index # session.current_question_index

(* submit_answer, lines 129-163: the quiz lookup, the index check, the     *)
(* answered set, the scoring, and the new Answer row                        *)
SubmitQuiz(t) ==
    LET me == tasks[t]
        quiz == SelectQuiz(me.sess.quiz_id)
        rt == RuntimeSetDefault(runtime[me.pin])
        question == PyIndex(quiz, me.qidx)
        is_correct == IF me.opt = question.correct_option_id THEN 1 ELSE 0
        started == IF rt.question_started_at = NoTime THEN now
                   ELSE rt.question_started_at
        elapsed == Max(0, now - started)
        limit == IF "time_limit_seconds" \in DOMAIN question
                 THEN question.time_limit_seconds ELSE DefaultTimeLimit
        points == Points(is_correct, elapsed, limit)
    IN
    /\ me.pc = "a_quiz"
    /\ IF QuestionMismatch(quiz, me.qidx, me.sess)
       THEN /\ Emit(<<ErrorEvent(me.sid, "Question mismatch")>>)
            /\ Done(t)
            /\ UNCHANGED runtime
       ELSE IF <<me.qidx, me.pid>> \in rt.answered
       THEN /\ Emit(<<ToSid("answer_ack", me.sid,
                            [accepted |-> FALSE, reason |-> "Already answered"])>>)
            /\ Done(t)
            /\ runtime' = [runtime EXCEPT ![me.pin] = rt]
       ELSE /\ runtime' = [runtime EXCEPT ![me.pin] =
                              [rt EXCEPT !.answered = @ \cup {<<me.qidx, me.pid>>}]]
            /\ out' = <<>>
            /\ Upd(t, [me EXCEPT !.pc = "a_commit", !.correct = is_correct,
                                 !.points = points, !.ms = elapsed * 1000,
                                 !.loaded = [@ EXCEPT ![me.pid].score = @ + points],
                                 !.dirty = IF points # 0 THEN {"score"} ELSE {}])
            /\ UNCHANGED ended
    /\ UNCHANGED <<sessions, players, answers, rooms, connected, nextSid, now>>

(* submit_answer, lines 164-175: commit, then the acknowledgement *)
SubmitCommit(t) ==
    LET me == tasks[t] IN
    /\ me.pc = "a_commit"
    /\ players' = [players EXCEPT ![me.pid] = WriteRow(@, me.loaded[me.pid], me.dirty)]
    /\ answers' = Append(answers, NewAnswer(me.pin, me.pid, me.qidx, me.opt,
                                            me.correct, me.points, me.ms))
    /\ Emit(<<ToSid("answer_ack", me.sid,
                    [accepted |-> TRUE, is_correct |-> me.correct = 1,
                     points |-> me.points,
                     total_score |-> me.loaded[me.pid].score])>>)
    /\ Done(t)
    /\ UNCHANGED <<sessions, runtime, rooms, connected, nextSid, now>>

(* ------------------- next_question, end_game, finalize ---------------- *)
(* finalize that stamps the end time and leaves the status *)
FinalizedStatusKept(me) ==
    [me EXCEPT !.pc = "f_commit", !.sess = [me.sess EXCEPT !.ended_at = now],
               !.dirty = {"ended_at"}]

(* _finalize_game, lines 270-271: the session object marked finished *)
Finalized(me) ==
    LET obj == [me.sess EXCEPT !.status = "finished", !.ended_at = now] IN
    [me EXCEPT !.pc = "f_commit", !.sess = obj,
               !.dirty = {"ended_at"} \cup Changed(me.sess, obj, {"status"})]

(* next_question, lines 178-189: the session lookup and the host check *)
NextQuestion(t, sid, pin) ==
    LET session == SelectSession(pin)
        rt == RuntimeSetDefault(runtime[pin])
    IN
    /\ FreeSlot(t)
    /\ sid \in connected
    /\ IF session = NoSession
       THEN /\ Emit(<<ErrorEvent(sid, "Game not found")>>)
            /\ UNCHANGED <<tasks, runtime>>
       ELSE /\ runtime' = [runtime EXCEPT ![pin] = rt]
            /\ IF ~IsHost(rt, sid)
               THEN /\ Emit(<<ErrorEvent(sid, "Only host can advance")>>)
                    /\ UNCHANGED tasks
               ELSE /\ out' = <<>>
                    /\ Upd(t, [Begin(t, "next_question", "n_quiz", sid, pin)
                                  EXCEPT !.sess = session])
                    /\ UNCHANGED ended
    /\ UNCHANGED <<sessions, players, answers, rooms, connected, nextSid, now>>

(* the bound check one question early *)
PastLastQuestionEarly(next_index, quiz) == next_index + 1 >= Len(quiz)

(* next_question, line 197: next_index >= len(quiz.questions_json) *)
PastLastQuestion(next_index, quiz) == next_index >= Len(quiz)

(* next_question, lines 191-202: the quiz lookup; past the last question   *)
(* the game is finalized, otherwise the index and the start time move on   *)
NextQuiz(t) ==
    LET me == tasks[t]
        quiz == SelectQuiz(me.sess.quiz_id)
        next_index == me.sess.current_question_index + 1
    IN
    /\ me.pc = "n_quiz"
    /\ IF quiz = NoQuiz
       THEN /\ Emit(<<ErrorEvent(me.sid, "Quiz missing")>>)
            /\ Done(t)
            /\ UNCHANGED runtime
       ELSE IF PastLastQuestion(next_index, quiz)
       THEN /\ out' = <<>>
            /\ Upd(t, Finalized(me))
            /\ UNCHANGED <<runtime, ended>>
       ELSE /\ runtime' = [runtime EXCEPT ![me.pin] =
                              [RuntimeSetDefault(@) EXCEPT !.question_started_at = now]]
            /\ out' = <<>>
            /\ Upd(t, [me EXCEPT !.pc = "n_commit", !.next_index = next_index,
                                 !.sess = [@ EXCEPT !.current_question_index = next_index],
                                 !.dirty = {"current_question_index"}])
            /\ UNCHANGED ended
    /\ UNCHANGED <<sessions, players, answers, rooms, connected, nextSid, now>>

(* next_question, lines 203-204: commit, then the new question to the room *)
NextCommit(t) ==
    LET me == tasks[t] IN
    /\ me.pc = "n_commit"
    /\ sessions' = [sessions EXCEPT ![me.pin] = WriteRow(@, me.sess, me.dirty)]
    /\ Emit(<<ToRoom("question_started", me.pin,
                     QuestionPayload(me.next_index,
                                     PyIndex(SelectQuiz(me.sess.quiz_id), me.next_index)))>>)
    /\ Done(t)
    /\ UNCHANGED <<players, answers, runtime, rooms, connected, nextSid, now>>

(* end_game, lines 207-217: the session lookup, the host check, finalize *)
EndGame(t, sid, pin) ==
    LET session == SelectSession(pin)
        rt == RuntimeSetDefault(runtime[pin])
    IN
    /\ FreeSlot(t)
    /\ sid \in connected
    /\ IF session = NoSession
       THEN /\ out' = <<>>
            /\ UNCHANGED <<tasks, runtime, ended>>
       ELSE /\ runtime' = [runtime EXCEPT ![pin] = rt]
            /\ IF ~IsHost(rt, sid)
               THEN /\ Emit(<<ErrorEvent(sid, "Only host can end")>>)
                    /\ UNCHANGED tasks
               ELSE /\ out' = <<>>
                    /\ Upd(t, Finalized([Begin(t, "end_game", "f_commit", sid, pin)
                                            EXCEPT !.sess = session]))
                    /\ UNCHANGED ended
    /\ UNCHANGED <<sessions, players, answers, rooms, connected, nextSid, now>>

(* _finalize_game, line 272: commit; the leaderboard follows *)
FinalizeCommit(t) ==
    LET me == tasks[t] IN
    /\ me.pc = "f_commit"
    /\ sessions' = [sessions EXCEPT ![me.pin] = WriteRow(@, me.sess, me.dirty)]
    /\ Upd(t, [me EXCEPT !.pc = "lb_players", !.dirty = {}])
    /\ out' = <<>>
    /\ UNCHANGED <<players, answers, runtime, rooms, connected, nextSid, now, ended>>

(* ---------------------------- start_session --------------------------- *)
(* the response of POST /sessions/start *)
SessionResponse(status, pin) ==
    [kind |-> "http", sid |-> NoSid, room |-> NoPin,
     data |-> [status |-> status, pin |-> pin]]

(* the loop of _generate_unique_pin without its bound *)
AttemptsLeftAlways(made) == TRUE

(* _generate_unique_pin, line 221: for _ in range(30) *)
AttemptsLeft(made) == made < MaxPinAttempts

(* start_session, lines 132-134: the quiz lookup; 404 without a quiz *)
StartSession(t, quiz_id) ==
    /\ FreeSlot(t)
    /\ IF SelectQuiz(quiz_id) = NoQuiz
       THEN /\ Emit(<<SessionResponse(404, NoPin)>>)
            /\ UNCHANGED tasks
       ELSE /\ out' = <<>>
            /\ Upd(t, [Begin(t, "start_session", "p_try", NoSid, NoPin)
                          EXCEPT !.sess = NewSession(quiz_id), !.k = 0])
            /\ UNCHANGED ended
    /\ UNCHANGED <<sessions, players, answers, runtime, rooms, connected, nextSid, now>>

(* _generate_unique_pin, lines 221-226: one sample and its lookup; the pin *)
(* is returned when no session has it, and after the last attempt the loop  *)
(* ends with HTTP 500                                                       *)
PinAttempt(t) ==
    LET me == tasks[t] IN
    /\ me.pc = "p_try"
    /\ \E pin \in PinSpace :
          IF SelectSession(pin) = NoSession
          THEN /\ out' = <<>>
               /\ Upd(t, [me EXCEPT !.pc = "p_commit", !.pin = pin, !.k = me.k + 1])
               /\ UNCHANGED ended
          ELSE IF AttemptsLeft(me.k + 1)
          THEN /\ out' = <<>>
               /\ Upd(t, [me EXCEPT !.k = me.k + 1])
               /\ UNCHANGED ended
          ELSE /\ Emit(<<SessionResponse(500, NoPin)>>)
               /\ Done(t)
    /\ UNCHANGED <<sessions, players, answers, runtime, rooms, connected, nextSid, now>>

(* a table or dict with the entry for pin added *)
WithPin(f, pin, entry) ==
    [p \in (DOMAIN f) \cup {pin} |-> IF p \in DOMAIN f THEN f[p] ELSE entry]

(* start_session, lines 137-150: the session row is added and committed *)
StartSessionCommit(t) ==
    LET me == tasks[t] IN
    /\ me.pc = "p_commit"
    /\ sessions' = [WithPin(sessions, me.pin, me.sess) EXCEPT ![me.pin] = me.sess]
    /\ runtime' = WithPin(runtime, me.pin, EmptyRuntime)
    /\ rooms' = WithPin(rooms, me.pin, {})
    /\ Emit(<<SessionResponse(200, me.pin)>>)
    /\ Done(t)
    /\ UNCHANGED <<players, answers, connected, nextSid, now>>

(* ---------------------------- a failed commit ------------------------- *)
CommitPcs == {"j_commit", "s_commit", "a_commit", "n_commit", "f_commit"}

(* await db.commit() raises: the exception ends the handler, leaving the    *)
(* async with block closes the AsyncSession and the pending changes are     *)
(* rolled back; no except clause touches self.runtime, and nothing is sent. *)
CommitFails(t) ==
    /\ tasks[t].pc \in CommitPcs
    /\ Done(t)
    /\ out' = <<>>
    /\ UNCHANGED <<sessions, players, answers, runtime, rooms, connected, nextSid,
                   now, ended>>

(* ------------------------------ the system ---------------------------- *)
SidInputs == 1..MaxSids

(* The slots a new handler of kind op may take.  With no handler in flight *)
(* it takes any; while others are suspended at an await it starts only in   *)
(* an environment that lets the kinds in racing interleave, and only among  *)
(* handlers of those kinds.                                                 *)
Slots(racing, op) ==
    IF \/ \A u \in TaskIds : tasks[u].op = "idle"
       \/ op \in racing /\ \A u \in TaskIds : tasks[u].op \in racing \cup {"idle"}
    THEN TaskIds
    ELSE {}

(* the steps that resume a suspended handler *)
Resume(t) ==
    \/ DisconnectCommit(t)
    \/ JoinPlayer(t)
    \/ JoinCommit(t)
    \/ EmitLobby(t)
    \/ SnapshotQuestion(t)
    \/ LeaderboardPlayers(t)
    \/ LeaderboardCount(t)
    \/ StartQuiz(t)
    \/ StartCommit(t)
    \/ SubmitPlayer(t)
    \/ SubmitQuiz(t)
    \/ SubmitCommit(t)
    \/ NextQuiz(t)
    \/ NextCommit(t)
    \/ FinalizeCommit(t)

(* the events the clients send, each starting a handler *)
Events(racing, pins, names) ==
    \/ \E t \in Slots(racing, "disconnect"), sid \in SidInputs : Disconnect(t, sid)
    \/ \E t \in Slots(racing, "join_room"), sid \in SidInputs, pin \in pins,
          role \in RoleInputs, name \in names : JoinRoom(t, sid, pin, role, name)
    \/ \E t \in Slots(racing, "start_game"), sid \in SidInputs, pin \in pins :
          StartGame(t, sid, pin)
    \/ \E t \in Slots(racing, "submit_answer"), sid \in SidInputs, pin \in pins,
          qidx \in QIndexInputs, opt \in OptionInputs : SubmitAnswer(t, sid, pin, qidx, opt)
    \/ \E t \in Slots(racing, "next_question"), sid \in SidInputs, pin \in pins :
          NextQuestion(t, sid, pin)
    \/ \E t \in Slots(racing, "end_game"), sid \in SidInputs, pin \in pins :
          EndGame(t, sid, pin)

(* Every handler runs to completion before the next event is handled, and  *)
(* the clock stands still.                                                  *)
Next ==
    \/ Connect
    \/ Events({}, PinInputs, NameInputs)
    \/ \E t \in TaskIds : Resume(t)

Spec == Init /\ [][Next]_vars

(* In the specifications below connection 1 is the host's client and the  *)
(* later connections are players' clients; each sends what its role sends.  *)
HostSid == NoSid + 1
PlayerSids == SidInputs \ {HostSid}
NoName == <<>>

AdvanceOps == {"next_question", "end_game"}

(* The host's next_question and end_game interleave at their awaits. *)
NextAdvance ==
    \/ Connect
    \/ \E t \in Slots({}, "join_room") : JoinRoom(t, HostSid, ThePin, "host", NoName)
    \/ \E t \in TaskIds : EmitLobby(t)
    \/ \E t \in TaskIds : SnapshotQuestion(t)
    \/ \E t \in Slots({}, "start_game") : StartGame(t, HostSid, ThePin)
    \/ \E t \in TaskIds : StartQuiz(t)
    \/ \E t \in TaskIds : StartCommit(t)
    \/ \E t \in Slots(AdvanceOps, "next_question") : NextQuestion(t, HostSid, ThePin)
    \/ \E t \in TaskIds : NextQuiz(t)
    \/ \E t \in TaskIds : NextCommit(t)
    \/ \E t \in Slots(AdvanceOps, "end_game") : EndGame(t, HostSid, ThePin)
    \/ \E t \in TaskIds : FinalizeCommit(t)
    \/ \E t \in TaskIds : LeaderboardPlayers(t)

SpecAdvance == Init /\ [][NextAdvance]_vars

(* The players' join_room and disconnect interleave at their awaits. *)
NextJoin ==
    \/ Connect
    \/ \E t \in Slots({"join_room", "disconnect"}, "disconnect"), sid \in SidInputs :
          Disconnect(t, sid)
    \/ \E t \in TaskIds : DisconnectCommit(t)
    \/ \E t \in Slots({"join_room", "disconnect"}, "join_room"), sid \in SidInputs,
          name \in RaceNames : JoinRoom(t, sid, ThePin, "player", name)
    \/ \E t \in TaskIds : JoinPlayer(t)
    \/ \E t \in TaskIds : JoinCommit(t)
    \/ \E t \in TaskIds : EmitLobby(t)

SpecJoin == Init /\ [][NextJoin]_vars

(* A player's submit_answer interleaves with the host's next_question      *)
(* while the clock runs.                                                    *)
NextTimed ==
    \/ Connect
    \/ Tick
    \/ \E t \in Slots({}, "join_room") : JoinRoom(t, HostSid, ThePin, "host", NoName)
    \/ \E t \in Slots({}, "join_room"), sid \in PlayerSids, name \in TimedNames :
          JoinRoom(t, sid, ThePin, "player", name)
    \/ \E t \in TaskIds : JoinPlayer(t)
    \/ \E t \in TaskIds : JoinCommit(t)
    \/ \E t \in TaskIds : EmitLobby(t)
    \/ \E t \in TaskIds : SnapshotQuestion(t)
    \/ \E t \in Slots({}, "start_game") : StartGame(t, HostSid, ThePin)
    \/ \E t \in TaskIds : StartQuiz(t)
    \/ \E t \in TaskIds : StartCommit(t)
    \/ \E t \in Slots({"submit_answer", "next_question"}, "submit_answer"),
          sid \in PlayerSids, qidx \in QIndexInputs, opt \in OptionInputs :
          SubmitAnswer(t, sid, ThePin, qidx, opt)
    \/ \E t \in TaskIds : SubmitPlayer(t)
    \/ \E t \in TaskIds : SubmitQuiz(t)
    \/ \E t \in TaskIds : SubmitCommit(t)
    \/ \E t \in Slots({"submit_answer", "next_question"}, "next_question") :
          NextQuestion(t, HostSid, ThePin)
    \/ \E t \in TaskIds : NextQuiz(t)
    \/ \E t \in TaskIds : NextCommit(t)
    \/ \E t \in TaskIds : FinalizeCommit(t)
    \/ \E t \in TaskIds : LeaderboardPlayers(t)
    \/ \E t \in TaskIds : LeaderboardCount(t)

SpecTimed == Init /\ [][NextTimed]_vars

(* A whole game of two players, one handler at a time, with the REST       *)
(* leaderboard read in every state of the session.                          *)
NextBoard ==
    \/ Connect
    \/ \E t \in Slots({}, "join_room") : JoinRoom(t, HostSid, ThePin, "host", NoName)
    \/ \E t \in Slots({}, "join_room"), sid \in SidInputs, name \in BoardNames :
          JoinRoom(t, sid, ThePin, "player", name)
    \/ \E t \in TaskIds : JoinPlayer(t)
    \/ \E t \in TaskIds : JoinCommit(t)
    \/ \E t \in TaskIds : EmitLobby(t)
    \/ \E t \in TaskIds : SnapshotQuestion(t)
    \/ \E t \in Slots({}, "start_game") : StartGame(t, HostSid, ThePin)
    \/ \E t \in TaskIds : StartQuiz(t)
    \/ \E t \in TaskIds : StartCommit(t)
    \/ \E t \in Slots({}, "submit_answer"), sid \in SidInputs, qidx \in QIndexInputs,
          opt \in OptionInputs : SubmitAnswer(t, sid, ThePin, qidx, opt)
    \/ \E t \in TaskIds : SubmitPlayer(t)
    \/ \E t \in TaskIds : SubmitQuiz(t)
    \/ \E t \in TaskIds : SubmitCommit(t)
    \/ \E t \in Slots({}, "next_question") : NextQuestion(t, HostSid, ThePin)
    \/ \E t \in TaskIds : NextQuiz(t)
    \/ \E t \in TaskIds : NextCommit(t)
    \/ \E t \in Slots({}, "end_game") : EndGame(t, HostSid, ThePin)
    \/ \E t \in TaskIds : FinalizeCommit(t)
    \/ \E t \in Slots({}, "get_leaderboard"), pin \in PinInputs : GetLeaderboard(t, pin)
    \/ \E t \in TaskIds : LeaderboardPlayers(t)
    \/ \E t \in TaskIds : LeaderboardCount(t)

SpecBoard == Init /\ [][NextBoard]_vars

(* A game of the host and one player, one handler at a time, in which any  *)
(* commit may fail.                                                         *)
NextFail ==
    \/ Connect
    \/ \E t \in Slots({}, "join_room") : JoinRoom(t, HostSid, ThePin, "host", NoName)
    \/ \E t \in Slots({}, "join_room"), sid \in PlayerSids, name \in TimedNames :
          JoinRoom(t, sid, ThePin, "player", name)
    \/ \E t \in TaskIds : JoinPlayer(t)
    \/ \E t \in TaskIds : JoinCommit(t)
    \/ \E t \in TaskIds : EmitLobby(t)
    \/ \E t \in TaskIds : SnapshotQuestion(t)
    \/ \E t \in Slots({}, "start_game") : StartGame(t, HostSid, ThePin)
    \/ \E t \in TaskIds : StartQuiz(t)
    \/ \E t \in TaskIds : StartCommit(t)
    \/ \E t \in Slots({}, "submit_answer"), sid \in PlayerSids, qidx \in QIndexInputs,
          opt \in OptionInputs : SubmitAnswer(t, sid, ThePin, qidx, opt)
    \/ \E t \in TaskIds : SubmitPlayer(t)
    \/ \E t \in TaskIds : SubmitQuiz(t)
    \/ \E t \in TaskIds : SubmitCommit(t)
    \/ \E t \in Slots({}, "next_question") : NextQuestion(t, HostSid, ThePin)
    \/ \E t \in TaskIds : NextQuiz(t)
    \/ \E t \in TaskIds : NextCommit(t)
    \/ \E t \in TaskIds : FinalizeCommit(t)
    \/ \E t \in TaskIds : LeaderboardPlayers(t)
    \/ \E t \in TaskIds : LeaderboardCount(t)
    \/ \E t \in TaskIds : CommitFails(t)

SpecFail == Init /\ [][NextFail]_vars

(* Every connection is a host's client: it joins as host and sends what a  *)
(* host sends, one handler at a time.                                       *)
NextHost ==
    \/ Connect
    \/ \E t \in Slots({}, "join_room"), sid \in SidInputs :
          JoinRoom(t, sid, ThePin, "host", NoName)
    \/ \E t \in TaskIds : EmitLobby(t)
    \/ \E t \in TaskIds : SnapshotQuestion(t)
    \/ \E t \in Slots({}, "start_game"), sid \in SidInputs : StartGame(t, sid, ThePin)
    \/ \E t \in TaskIds : StartQuiz(t)
    \/ \E t \in TaskIds : StartCommit(t)
    \/ \E t \in Slots({}, "next_question"), sid \in SidInputs : NextQuestion(t, sid, ThePin)
    \/ \E t \in TaskIds : NextQuiz(t)
    \/ \E t \in TaskIds : NextCommit(t)
    \/ \E t \in Slots({}, "end_game"), sid \in SidInputs : EndGame(t, sid, ThePin)
    \/ \E t \in TaskIds : FinalizeCommit(t)
    \/ \E t \in TaskIds : LeaderboardPlayers(t)

SpecHost == Init /\ [][NextHost]_vars

(* A player's join_room interleaves with the host's next_question and      *)
(* end_game.                                                                *)
ResyncOps == {"join_room", "next_question", "end_game"}

NextResync ==
    \/ Connect
    \/ \E t \in Slots({}, "join_room") : JoinRoom(t, HostSid, ThePin, "host", NoName)
    \/ \E t \in Slots(ResyncOps, "join_room"), sid \in PlayerSids, name \in TimedNames :
          JoinRoom(t, sid, ThePin, "player", name)
    \/ \E t \in TaskIds : JoinPlayer(t)
    \/ \E t \in TaskIds : JoinCommit(t)
    \/ \E t \in TaskIds : EmitLobby(t)
    \/ \E t \in TaskIds : SnapshotQuestion(t)
    \/ \E t \in Slots({}, "start_game") : StartGame(t, HostSid, ThePin)
    \/ \E t \in TaskIds : StartQuiz(t)
    \/ \E t \in TaskIds : StartCommit(t)
    \/ \E t \in Slots(ResyncOps, "next_question") : NextQuestion(t, HostSid, ThePin)
    \/ \E t \in TaskIds : NextQuiz(t)
    \/ \E t \in TaskIds : NextCommit(t)
    \/ \E t \in Slots(ResyncOps, "end_game") : EndGame(t, HostSid, ThePin)
    \/ \E t \in TaskIds : FinalizeCommit(t)
    \/ \E t \in TaskIds : LeaderboardPlayers(t)
    \/ \E t \in TaskIds : LeaderboardCount(t)

SpecResync == Init /\ [][NextResync]_vars

(* A game of the host and one player, one handler at a time, while the     *)
(* clock runs.                                                              *)
NextRound ==
    \/ Connect
    \/ Tick
    \/ \E t \in Slots({}, "join_room") : JoinRoom(t, HostSid, ThePin, "host", NoName)
    \/ \E t \in Slots({}, "join_room"), sid \in PlayerSids, name \in TimedNames :
          JoinRoom(t, sid, ThePin, "player", name)
    \/ \E t \in TaskIds : JoinPlayer(t)
    \/ \E t \in TaskIds : JoinCommit(t)
    \/ \E t \in TaskIds : EmitLobby(t)
    \/ \E t \in TaskIds : SnapshotQuestion(t)
    \/ \E t \in Slots({}, "start_game") : StartGame(t, HostSid, ThePin)
    \/ \E t \in TaskIds : StartQuiz(t)
    \/ \E t \in TaskIds : StartCommit(t)
    \/ \E t \in Slots({}, "submit_answer"), sid \in PlayerSids, qidx \in QIndexInputs,
          opt \in OptionInputs : SubmitAnswer(t, sid, ThePin, qidx, opt)
    \/ \E t \in TaskIds : SubmitPlayer(t)
    \/ \E t \in TaskIds : SubmitQuiz(t)
    \/ \E t \in TaskIds : SubmitCommit(t)
    \/ \E t \in Slots({}, "next_question") : NextQuestion(t, HostSid, ThePin)
    \/ \E t \in TaskIds : NextQuiz(t)
    \/ \E t \in TaskIds : NextCommit(t)
    \/ \E t \in TaskIds : FinalizeCommit(t)
    \/ \E t \in TaskIds : LeaderboardPlayers(t)
    \/ \E t \in TaskIds : LeaderboardCount(t)

SpecRound == Init /\ [][NextRound]_vars

(* The host starts the game once and then keeps sending next_question,      *)
(* while a player joins, answers and leaves; one handler at a time.  The    *)
(* event loop runs every task that is ready, so a suspended handler is      *)
(* resumed; the host sends next_question again and again.                   *)
HostAdvances == \E t \in Slots({}, "next_question") : NextQuestion(t, HostSid, ThePin)

NextLive ==
    \/ Connect
    \/ \E t \in Slots({}, "disconnect"), sid \in PlayerSids : Disconnect(t, sid)
    \/ \E t \in Slots({}, "join_room") : JoinRoom(t, HostSid, ThePin, "host", NoName)
    \/ \E t \in Slots({}, "join_room"), sid \in PlayerSids, name \in TimedNames :
          JoinRoom(t, sid, ThePin, "player", name)
    \/ \E t \in Slots({}, "start_game") :
          sessions[ThePin].status = "lobby" /\ StartGame(t, HostSid, ThePin)
    \/ \E t \in Slots({}, "submit_answer"), sid \in PlayerSids, qidx \in QIndexInputs,
          opt \in OptionInputs : SubmitAnswer(t, sid, ThePin, qidx, opt)
    \/ HostAdvances
    \/ \E t \in TaskIds : Resume(t)

SpecLive ==
    /\ Init
    /\ [][NextLive]_vars
    /\ WF_vars(\E t \in TaskIds : Resume(t))
    /\ SF_vars(HostAdvances)

(* A game that is started once: the players' submit_answer interleaves    *)
(* with the host's end_game.                                                *)
EndOps == {"submit_answer", "end_game"}

NextEnd ==
    \/ Connect
    \/ \E t \in Slots({}, "join_room") : JoinRoom(t, HostSid, ThePin, "host", NoName)
    \/ \E t \in Slots({}, "join_room"), sid \in PlayerSids, name \in TimedNames :
          JoinRoom(t, sid, ThePin, "player", name)
    \/ \E t \in TaskIds : JoinPlayer(t)
    \/ \E t \in TaskIds : JoinCommit(t)
    \/ \E t \in TaskIds : EmitLobby(t)
    \/ \E t \in TaskIds : SnapshotQuestion(t)
    \/ \E t \in Slots({}, "start_game") :
          sessions[ThePin].status = "lobby" /\ StartGame(t, HostSid, ThePin)
    \/ \E t \in TaskIds : StartQuiz(t)
    \/ \E t \in TaskIds : StartCommit(t)
    \/ \E t \in Slots(EndOps, "submit_answer"), sid \in PlayerSids, qidx \in QIndexInputs,
          opt \in OptionInputs : SubmitAnswer(t, sid, ThePin, qidx, opt)
    \/ \E t \in TaskIds : SubmitPlayer(t)
    \/ \E t \in TaskIds : SubmitQuiz(t)
    \/ \E t \in TaskIds : SubmitCommit(t)
    \/ \E t \in Slots(EndOps, "end_game") : EndGame(t, HostSid, ThePin)
    \/ \E t \in TaskIds : FinalizeCommit(t)
    \/ \E t \in TaskIds : LeaderboardPlayers(t)
    \/ \E t \in TaskIds : LeaderboardCount(t)

SpecEnd == Init /\ [][NextEnd]_vars

(* Two sessions side by side: connection 1 hosts both and the later         *)
(* connections play; each sends its events with either code, one handler    *)
(* at a time.                                                               *)
OtherPin == "222222"
TwoPins == {ThePin, OtherPin}

InitTwo ==
    /\ sessions = [p \in TwoPins |-> NewSession("quiz1")]
    /\ players = <<>>
    /\ answers = <<>>
    /\ runtime = [p \in TwoPins |-> EmptyRuntime]
    /\ rooms = [p \in TwoPins |-> {}]
    /\ connected = {}
    /\ nextSid = 0
    /\ tasks = [t \in TaskIds |-> IdleTask]
    /\ now = 0
    /\ out = <<>>
    /\ ended = {}

NextTwo ==
    \/ Connect
    \/ \E t \in Slots({}, "join_room"), pin \in TwoPins :
          JoinRoom(t, HostSid, pin, "host", NoName)
    \/ \E t \in Slots({}, "join_room"), sid \in PlayerSids, pin \in TwoPins,
          name \in TimedNames : JoinRoom(t, sid, pin, "player", name)
    \/ \E t \in Slots({}, "start_game"), pin \in TwoPins : StartGame(t, HostSid, pin)
    \/ \E t \in Slots({}, "submit_answer"), sid \in PlayerSids, pin \in TwoPins,
          qidx \in QIndexInputs, opt \in OptionInputs : SubmitAnswer(t, sid, pin, qidx, opt)
    \/ \E t \in Slots({}, "next_question"), pin \in TwoPins : NextQuestion(t, HostSid, pin)
    \/ \E t \in Slots({}, "end_game"), pin \in TwoPins : EndGame(t, HostSid, pin)
    \/ \E t \in TaskIds : JoinPlayer(t)
    \/ \E t \in TaskIds : JoinCommit(t)
    \/ \E t \in TaskIds : EmitLobby(t)
    \/ \E t \in TaskIds : SnapshotQuestion(t)
    \/ \E t \in TaskIds : LeaderboardPlayers(t)
    \/ \E t \in TaskIds : LeaderboardCount(t)
    \/ \E t \in TaskIds : StartQuiz(t)
    \/ \E t \in TaskIds : StartCommit(t)
    \/ \E t \in TaskIds : SubmitPlayer(t)
    \/ \E t \in TaskIds : SubmitQuiz(t)
    \/ \E t \in TaskIds : SubmitCommit(t)
    \/ \E t \in TaskIds : NextQuiz(t)
    \/ \E t \in TaskIds : NextCommit(t)
    \/ \E t \in TaskIds : FinalizeCommit(t)

SpecTwo == InitTwo /\ [][NextTwo]_vars

(* Connections come and go: a connection joins under either of two names,  *)
(* answers, and disconnects, one handler at a time.                         *)
NextLeave ==
    \/ Connect
    \/ \E t \in Slots({}, "disconnect"), sid \in SidInputs : Disconnect(t, sid)
    \/ \E t \in TaskIds : DisconnectCommit(t)
    \/ \E t \in Slots({}, "join_room") : JoinRoom(t, HostSid, ThePin, "host", NoName)
    \/ \E t \in Slots({}, "join_room"), sid \in SidInputs, name \in BoardNames :
          JoinRoom(t, sid, ThePin, "player", name)
    \/ \E t \in TaskIds : JoinPlayer(t)
    \/ \E t \in TaskIds : JoinCommit(t)
    \/ \E t \in TaskIds : EmitLobby(t)
    \/ \E t \in TaskIds : SnapshotQuestion(t)
    \/ \E t \in Slots({}, "start_game") : StartGame(t, HostSid, ThePin)
    \/ \E t \in TaskIds : StartQuiz(t)
    \/ \E t \in TaskIds : StartCommit(t)
    \/ \E t \in Slots({}, "submit_answer"), sid \in SidInputs, qidx \in QIndexInputs,
          opt \in OptionInputs : SubmitAnswer(t, sid, ThePin, qidx, opt)
    \/ \E t \in TaskIds : SubmitPlayer(t)
    \/ \E t \in TaskIds : SubmitQuiz(t)
    \/ \E t \in TaskIds : SubmitCommit(t)

SpecLeave == Init /\ [][NextLeave]_vars

(* ====================================================================== *)
(* The channel-group variant: backend/quiz, a Django Channels consumer over *)
(* Django models.  Its tables take the place of the tables above: sessions  *)
(* holds the Quiz rows, players the Participant rows, answers the Answer    *)
(* rows, rooms the members of the channel group quiz_<id>; runtime, now and *)
(* ended are not used.  A task's sess is the Quiz object its handler got    *)
(* from get_quiz, pin the quiz id, name the nickname, qidx the question_id, *)
(* opt the selected_option and ms the response_time of the message.         *)
(* ====================================================================== *)
TheQuiz == "quiz1"
HostUser == "teacher"
AnonymousUser == "anonymous"
TimePerQuestion == 30
BaseScore == 100
BonusScore == 50
MaxTotalTime == 30

ResponseTimes == {-30, 15, 45}
SelectedOptions == {"A", "b", ""}
QuestionIdInputs == {1, 3}

(* Quiz: the columns the consumer reads or writes *)
NewQuiz ==
    [host |-> HostUser, status |-> "ready", time_per_question |-> TimePerQuestion,
     current_question_index |-> 0]

(* quiz.questions.all().order_by('order'): the Question rows of the quiz;  *)
(* the four option texts are left out                                       *)
QuestionRows ==
    << [id |-> 1, question_text |-> "prompt 0", correct_answer |-> "A", order |-> 0],
       [id |-> 2, question_text |-> "prompt 1", correct_answer |-> "B", order |-> 1] >>

NewParticipant(quiz, nickname) ==
    [quiz |-> quiz, nickname |-> nickname, total_score |-> 0, correct_answers |-> 0,
     total_response_time |-> 0]

(* get_user_from_jwt: connection 1 carries the token of the quiz's host,    *)
(* the others carry none                                                    *)
UserOf(sid) == IF sid = HostSid THEN HostUser ELSE AnonymousUser

(* is_host: self.user.is_authenticated and quiz.host == self.user *)
QuizIsHost(quiz, sid) == UserOf(sid) # AnonymousUser /\ quiz.host = UserOf(sid)

(* str.upper() of a one-letter option *)
Upper(c) ==
    CASE c = "a" -> "A"
      [] c = "b" -> "B"
      [] c = "c" -> "C"
      [] c = "d" -> "D"
      [] OTHER -> c

(* save_answer lines 319-324, submit_answer lines 274-279: base_score +    *)
(* time_bonus, int() of a quotient that is exact for the inputs used        *)
AnswerScore(is_correct, limit, response_time) ==
    LET base_score == IF is_correct THEN BaseScore ELSE 0
        time_bonus == IF is_correct /\ limit > 0
                      THEN (Max(0, limit - response_time) * BonusScore) \div limit
                      ELSE 0
    IN  base_score + time_bonus

(* save_answer lines 313-334: the Answer values computed from the message *)
AnswerValues(quiz, question, selected_option, response_time) ==
    IF selected_option = ""
    THEN [selected_option |-> "", is_correct |-> FALSE,
          response_time |-> response_time, score |-> 0]
    ELSE LET is_correct == Upper(selected_option) = Upper(question.correct_answer) IN
         [selected_option |-> Upper(selected_option), is_correct |-> is_correct,
          response_time |-> response_time,
          score |-> AnswerScore(is_correct, quiz.time_per_question, response_time)]

(* Participant.objects.get(quiz=quiz, nickname=nickname) *)
ParticipantsNamed(quiz_id, nickname) ==
    {i \in PlayerIds : players[i].quiz = quiz_id /\ players[i].nickname = nickname}

(* Question.objects.get(id=question_id, quiz=quiz) *)
QuestionsWithId(question_id) ==
    {j \in 1..Len(QuestionRows) : QuestionRows[j].id = question_id}

AnswersOf(rows, i, question_id) ==
    {a \in 1..Len(rows) : rows[a].participant = i /\ rows[a].question = question_id}

(* Answer.objects.update_or_create(participant, question, defaults) *)
UpdateOrCreate(rows, i, question_id, values) ==
    LET row == [participant |-> i, question |-> question_id,
                selected_option |-> values.selected_option,
                is_correct |-> values.is_correct,
                response_time |-> values.response_time, score |-> values.score]
    IN  IF AnswersOf(rows, i, question_id) = {}
        THEN Append(rows, row)
        ELSE [rows EXCEPT ![CHOOSE a \in AnswersOf(rows, i, question_id) : TRUE] = row]

(* sum(a.score for a in participant.answers.all()) *)
RECURSIVE SumScores(_, _)
SumScores(rows, i) ==
    IF rows = <<>> THEN 0
    ELSE (IF Head(rows).participant = i THEN Head(rows).score ELSE 0)
           + SumScores(Tail(rows), i)

(* participant.answers.filter(is_correct=True).count() *)
CountCorrect(rows, i) ==
    Cardinality({a \in 1..Len(rows) : rows[a].participant = i /\ rows[a].is_correct})

(* save_answer lines 338-341: the participant's stats after the write *)
UpdateStats(row, rows, i, response_time) ==
    [row EXCEPT !.total_score = SumScores(rows, i),
                !.correct_answers = CountCorrect(rows, i),
                !.total_response_time = @ + response_time]

(* order_by('-total_score', 'total_response_time'), by insertion *)
RECURSIVE InsertRanked(_, _)
InsertRanked(sorted, e) ==
    IF sorted = <<>> THEN <<e>>
    ELSE IF \/ Head(sorted).total_score > e.total_score
            \/ /\ Head(sorted).total_score = e.total_score
               /\ Head(sorted).total_response_time <= e.total_response_time
         THEN <<Head(sorted)>> \o InsertRanked(Tail(sorted), e)
         ELSE <<e>> \o sorted

RECURSIVE RankParticipants(_)
RankParticipants(s) ==
    IF s = <<>> THEN <<>>
    ELSE InsertRanked(RankParticipants(SubSeq(s, 1, Len(s) - 1)), s[Len(s)])

RECURSIVE ParticipantsOf(_, _)
ParticipantsOf(rows, quiz_id) ==
    IF rows = <<>> THEN <<>>
    ELSE (IF Head(rows).quiz = quiz_id THEN <<Head(rows)>> ELSE <<>>)
           \o ParticipantsOf(Tail(rows), quiz_id)

(* get_leaderboard, lines 348-361 *)
QuizLeaderboard(quiz_id) ==
    LET ranked == RankParticipants(ParticipantsOf(players, quiz_id)) IN
    [idx \in 1..Len(ranked) |->
        [nickname |-> ranked[idx].nickname, total_score |-> ranked[idx].total_score,
         correct_answers |-> ranked[idx].correct_answers,
         total_response_time |-> ranked[idx].total_response_time, rank |-> idx]]

(* get_participant_count *)
ParticipantCount(quiz_id) == Len(ParticipantsOf(players, quiz_id))

(* get_question, lines 292-296 *)
GetQuestion(index) ==
    IF 0 <= index /\ index < Len(QuestionRows) THEN <<QuestionRows[index + 1]>> ELSE <<>>

(* the synchronized_question group message, lines 184-199 *)
SynchronizedQuestion(quiz_id, quiz, question) ==
    ToRoom("synchronized_question", quiz_id,
           [question |-> [id |-> question.id, question_text |-> question.question_text,
                          order |-> question.order,
                          index |-> quiz.current_question_index],
            time_limit |-> quiz.time_per_question])

(* the sum of the response times a participant has sent stays in a range *)
WithinTotalTime ==
    \A i \in PlayerIds : /\ players[i].total_response_time <= MaxTotalTime
                         /\ players[i].total_response_time >= -MaxTotalTime

(* connect, lines 18-33: group_add, accept, get_quiz *)
QuizConnect(t) ==
    /\ FreeSlot(t)
    /\ nextSid < MaxSids
    /\ nextSid' = nextSid + 1
    /\ connected' = connected \cup {nextSid + 1}
    /\ rooms' = [rooms EXCEPT ![TheQuiz] = @ \cup {nextSid + 1}]
    /\ Upd(t, [Begin(t, "connect", "q_state", nextSid + 1, TheQuiz)
                 EXCEPT !.sess = sessions[TheQuiz]])
    /\ out' = <<>>
    /\ UNCHANGED <<sessions, players, answers, runtime, now, ended>>

(* disconnect, lines 43-48: group_discard *)
QuizDisconnect(sid) ==
    /\ sid \in connected
    /\ connected' = connected \ {sid}
    /\ rooms' = [q \in DOMAIN rooms |-> rooms[q] \ {sid}]
    /\ out' = <<>>
    /\ UNCHANGED <<sessions, players, answers, runtime, nextSid, tasks, now, ended>>

(* send_quiz_state, lines 368-380 *)
SendQuizState(t) ==
    LET me == tasks[t] IN
    /\ me.pc = "q_state"
    /\ Emit(<<ToSid("quiz_state", me.sid,
                    [id |-> me.pin, status |-> me.sess.status,
                     participant_count |-> ParticipantCount(me.pin),
                     time_per_question |-> me.sess.time_per_question])>>)
    /\ Upd(t, [me EXCEPT !.pc = "q_count"])
    /\ UNCHANGED <<sessions, players, answers, runtime, rooms, connected, nextSid, now>>

(* broadcast_participant_update, lines 431-440, and the test of quiz.status *)
(* that follows it in connect (line 40) and handle_join (line 84)           *)
BroadcastParticipantUpdate(t) ==
    LET me == tasks[t] IN
    /\ me.pc = "q_count"
    /\ Emit(<<ToRoom("participant_update", me.pin,
                     [participant_count |-> ParticipantCount(me.pin)])>>)
    /\ IF me.sess.status = "live"
       THEN Upd(t, [me EXCEPT !.pc = "q_send"])
       ELSE Done(t)
    /\ UNCHANGED <<sessions, players, answers, runtime, rooms, connected, nextSid, now>>

(* handle_join, lines 75-80: get_quiz; nothing without a nickname *)
HandleJoin(t, sid, nickname) ==
    /\ FreeSlot(t)
    /\ sid \in connected
    /\ IF nickname = NoName
       THEN UNCHANGED tasks
       ELSE Upd(t, [Begin(t, "join", "q_part", sid, TheQuiz)
                      EXCEPT !.sess = sessions[TheQuiz], !.name = nickname])
    /\ out' = <<>>
    /\ UNCHANGED <<sessions, players, answers, runtime, rooms, connected, nextSid, now,
                   ended>>

(* get_or_create_participant, lines 275-281 *)
GetOrCreateParticipant(t) ==
    LET me == tasks[t] IN
    /\ me.pc = "q_part"
    /\ players' = IF ParticipantsNamed(me.pin, me.name) = {}
                  THEN Append(players, NewParticipant(me.pin, me.name))
                  ELSE players
    /\ Upd(t, [me EXCEPT !.pc = "q_count"])
    /\ out' = <<>>
    /\ UNCHANGED <<sessions, answers, runtime, rooms, connected, nextSid, now, ended>>

(* handle_start_quiz, lines 87-120: the checks before start_quiz *)
HandleStartQuiz(t, sid) ==
    /\ FreeSlot(t)
    /\ sid \in connected
    /\ IF UserOf(sid) = AnonymousUser
       THEN /\ Emit(<<ErrorEvent(sid, "Authentication required to start quiz")>>)
            /\ UNCHANGED tasks
       ELSE IF QuizIsHost(sessions[TheQuiz], sid)
       THEN /\ out' = <<>>
            /\ Upd(t, [Begin(t, "start_quiz", "q_start", sid, TheQuiz)
                         EXCEPT !.sess = sessions[TheQuiz]])
            /\ UNCHANGED ended
       ELSE /\ Emit(<<ErrorEvent(sid, "You are not authorized to start this quiz")>>)
            /\ UNCHANGED tasks
    /\ UNCHANGED <<sessions, players, answers, runtime, rooms, connected, nextSid, now>>

(* start_quiz, lines 284-289: the object is changed and saved whole *)
StartQuizSave(t) ==
    LET me == tasks[t]
        quiz == [me.sess EXCEPT !.status = "live", !.current_question_index = 0]
    IN
    /\ me.pc = "q_start"
    /\ sessions' = [sessions EXCEPT ![me.pin] = quiz]
    /\ Upd(t, [me EXCEPT !.pc = "q_reset", !.sess = quiz])
    /\ out' = <<>>
    /\ UNCHANGED <<players, answers, runtime, rooms, connected, nextSid, now, ended>>

(* reset_and_send_first_question, lines 157-159: the row's index is set to  *)
(* 0 by an UPDATE                                                           *)
ResetIndex(t) ==
    LET me == tasks[t] IN
    /\ me.pc = "q_reset"
    /\ sessions' = [sessions EXCEPT ![me.pin].current_question_index = 0]
    /\ Upd(t, [me EXCEPT !.pc = "q_send"])
    /\ out' = <<>>
    /\ UNCHANGED <<players, answers, runtime, rooms, connected, nextSid, now, ended>>

(* handle_next_question, lines 135-153: the checks before the advance *)
HandleNextQuestion(t, sid) ==
    /\ FreeSlot(t)
    /\ sid \in connected
    /\ IF UserOf(sid) = AnonymousUser
       THEN /\ Emit(<<ErrorEvent(sid, "Authentication required")>>)
            /\ UNCHANGED tasks
       ELSE IF QuizIsHost(sessions[TheQuiz], sid)
       THEN /\ out' = <<>>
            /\ Upd(t, [Begin(t, "quiz_next_question", "q_advance", sid, TheQuiz)
                         EXCEPT !.sess = sessions[TheQuiz]])
            /\ UNCHANGED ended
       ELSE /\ Emit(<<ErrorEvent(sid, "Only host can advance questions")>>)
            /\ UNCHANGED tasks
    /\ UNCHANGED <<sessions, players, answers, runtime, rooms, connected, nextSid, now>>

(* advance_to_next_question, lines 164-170: the questions are read and the  *)
(* bound is tested                                                          *)
AdvanceToNextQuestion(t) ==
    LET me == tasks[t]
        current_index == me.sess.current_question_index
    IN
    /\ me.pc = "q_advance"
    /\ IF current_index + 1 < Len(QuestionRows)
       THEN Upd(t, [me EXCEPT !.pc = "q_update", !.next_index = current_index + 1])
       ELSE Upd(t, [me EXCEPT !.pc = "q_complete"])
    /\ out' = <<>>
    /\ UNCHANGED <<sessions, players, answers, runtime, rooms, connected, nextSid, now,
                   ended>>

(* advance_to_next_question, lines 171-174: the row's index is set by an    *)
(* UPDATE; the object quiz keeps the index it was read with                 *)
UpdateIndex(t) ==
    LET me == tasks[t] IN
    /\ me.pc = "q_update"
    /\ sessions' = [sessions EXCEPT ![me.pin].current_question_index = me.next_index]
    /\ Upd(t, [me EXCEPT !.pc = "q_send"])
    /\ out' = <<>>
    /\ UNCHANGED <<players, answers, runtime, rooms, connected, nextSid, now, ended>>

(* send_current_synchronized_question, lines 180-203: the question at       *)
(* quiz.current_question_index of the handler's object goes to the group    *)
SendCurrentSynchronizedQuestion(t) ==
    LET me == tasks[t]
        question == GetQuestion(me.sess.current_question_index)
    IN
    /\ me.pc = "q_send"
    /\ IF question # <<>>
       THEN /\ Emit(<<SynchronizedQuestion(me.pin, me.sess, question[1])>>)
            /\ Done(t)
       ELSE /\ out' = <<>>
            /\ Upd(t, [me EXCEPT !.pc = "q_complete"])
            /\ UNCHANGED ended
    /\ UNCHANGED <<sessions, players, answers, runtime, rooms, connected, nextSid, now>>

(* complete_quiz, lines 415-420: status completed, the object saved whole *)
CompleteQuiz(t) ==
    LET me == tasks[t]
        quiz == [me.sess EXCEPT !.status = "completed"]
    IN
    /\ me.pc = "q_complete"
    /\ sessions' = [sessions EXCEPT ![me.pin] = quiz]
    /\ Upd(t, [me EXCEPT !.pc = "q_finish", !.sess = quiz])
    /\ out' = <<>>
    /\ UNCHANGED <<players, answers, runtime, rooms, connected, nextSid, now, ended>>

(* complete_quiz, lines 422-429: the leaderboard goes to the group *)
QuizCompleted(t) ==
    LET me == tasks[t] IN
    /\ me.pc = "q_finish"
    /\ Emit(<<ToRoom("quiz_completed", me.pin,
                     [leaderboard |-> QuizLeaderboard(me.pin)])>>)
    /\ Done(t)
    /\ UNCHANGED <<sessions, players, answers, runtime, rooms, connected, nextSid, now>>

(* handle_submit_answer, lines 122-130: get_quiz and the fields of the      *)
(* message; nothing without a nickname or a question_id                     *)
HandleSubmitAnswer(t, sid, nickname, question_id, selected_option, response_time) ==
    /\ FreeSlot(t)
    /\ sid \in connected
    /\ WithinTotalTime
    /\ IF nickname = NoName
       THEN UNCHANGED tasks
       ELSE Upd(t, [Begin(t, "quiz_submit_answer", "q_save", sid, TheQuiz)
                      EXCEPT !.sess = sessions[TheQuiz], !.name = nickname,
                             !.qidx = question_id, !.opt = selected_option,
                             !.ms = response_time])
    /\ out' = <<>>
    /\ UNCHANGED <<sessions, players, answers, runtime, rooms, connected, nextSid, now,
                   ended>>

(* save_answer, lines 307-345: one synchronous function.  A participant or  *)
(* question that does not exist raises, and the except returns None.        *)
SaveAnswer(t) ==
    LET me == tasks[t]
        found == ParticipantsNamed(me.pin, me.name)
        asked == QuestionsWithId(me.qidx)
    IN
    /\ me.pc = "q_save"
    /\ IF found = {} \/ asked = {}
       THEN UNCHANGED <<players, answers>>
       ELSE LET i == CHOOSE x \in found : TRUE
                question == QuestionRows[CHOOSE j \in asked : TRUE]
                rows == UpdateOrCreate(answers, i, question.id,
                                       AnswerValues(me.sess, question, me.opt, me.ms))
            IN  /\ answers' = rows
                /\ players' = [players EXCEPT ![i] = UpdateStats(@, rows, i, me.ms)]
    /\ Upd(t, [me EXCEPT !.pc = "q_board"])
    /\ out' = <<>>
    /\ UNCHANGED <<sessions, runtime, rooms, connected, nextSid, now, ended>>

(* broadcast_leaderboard_update, lines 442-451 *)
BroadcastLeaderboardUpdate(t) ==
    LET me == tasks[t] IN
    /\ me.pc = "q_board"
    /\ Emit(<<ToRoom("leaderboard_update", me.pin,
                     [leaderboard |-> QuizLeaderboard(me.pin)])>>)
    /\ Done(t)
    /\ UNCHANGED <<sessions, players, answers, runtime, rooms, connected, nextSid, now>>

(* the response of POST /quizzes/{id}/submit_answer/ *)
AnswerResponse(status, values) ==
    [kind |-> "http", sid |-> NoSid, room |-> NoPin,
     data |-> [status |-> status, answer |-> values]]

(* PublicQuizViewSet.submit_answer, views.py lines 260-298: a synchronous   *)
(* view; 404 without the participant or the question                        *)
SubmitAnswerView(nickname, question_id, selected_option, response_time) ==
    LET found == ParticipantsNamed(TheQuiz, nickname)
        asked == QuestionsWithId(question_id)
    IN
    /\ \A u \in TaskIds : tasks[u].op = "idle"
    /\ WithinTotalTime
    /\ IF found = {} \/ asked = {}
       THEN /\ Emit(<<AnswerResponse(404, <<>>)>>)
            /\ UNCHANGED <<players, answers>>
       ELSE LET i == CHOOSE x \in found : TRUE
                question == QuestionRows[CHOOSE j \in asked : TRUE]
                is_correct == Upper(selected_option) = Upper(question.correct_answer)
                values == [selected_option |-> Upper(selected_option),
                           is_correct |-> is_correct, response_time |-> response_time,
                           score |-> AnswerScore(is_correct,
                                                 sessions[TheQuiz].time_per_question,
                                                 response_time)]
                rows == UpdateOrCreate(answers, i, question.id, values)
            IN  /\ answers' = rows
                /\ players' = [players EXCEPT ![i] = UpdateStats(@, rows, i, response_time)]
                /\ Emit(<<AnswerResponse(200, values)>>)
    /\ UNCHANGED <<sessions, runtime, rooms, connected, nextSid, tasks, now>>

(* A quiz of two questions served to its channel group: connection 1 is the *)
(* host's, the messages of the consumers are handled one at a time.         *)
InitChannels ==
    /\ sessions = [q \in {TheQuiz} |-> NewQuiz]
    /\ players = <<>>
    /\ answers = <<>>
    /\ runtime = [q \in {TheQuiz} |-> EmptyRuntime]
    /\ rooms = [q \in {TheQuiz} |-> {}]
    /\ connected = {}
    /\ nextSid = 0
    /\ tasks = [t \in TaskIds |-> IdleTask]
    /\ now = 0
    /\ out = <<>>
    /\ ended = {}

NextChannels ==
    \/ \E t \in Slots({}, "connect") : QuizConnect(t)
    \/ \E t \in Slots({}, "disconnect"), sid \in SidInputs : QuizDisconnect(sid)
    \/ \E t \in TaskIds : SendQuizState(t)
    \/ \E t \in TaskIds : BroadcastParticipantUpdate(t)
    \/ \E t \in Slots({}, "join"), sid \in SidInputs, nickname \in TimedNames \cup {NoName} :
          HandleJoin(t, sid, nickname)
    \/ \E t \in TaskIds : GetOrCreateParticipant(t)
    \/ \E t \in Slots({}, "start_quiz"), sid \in SidInputs : HandleStartQuiz(t, sid)
    \/ \E t \in TaskIds : StartQuizSave(t)
    \/ \E t \in TaskIds : ResetIndex(t)
    \/ \E t \in Slots({}, "quiz_next_question"), sid \in SidInputs : HandleNextQuestion(t, sid)
    \/ \E t \in TaskIds : AdvanceToNextQuestion(t)
    \/ \E t \in TaskIds : UpdateIndex(t)
    \/ \E t \in TaskIds : SendCurrentSynchronizedQuestion(t)
    \/ \E t \in TaskIds : CompleteQuiz(t)
    \/ \E t \in TaskIds : QuizCompleted(t)
    \/ \E t \in Slots({}, "quiz_submit_answer"), sid \in SidInputs, nickname \in BoardNames,
          question_id \in QuestionIdInputs, selected_option \in SelectedOptions,
          response_time \in ResponseTimes :
          HandleSubmitAnswer(t, sid, nickname, question_id, selected_option, response_time)
    \/ \E t \in TaskIds : SaveAnswer(t)
    \/ \E t \in TaskIds : BroadcastLeaderboardUpdate(t)
    \/ \E nickname \in BoardNames, question_id \in QuestionIdInputs,
          selected_option \in SelectedOptions, response_time \in ResponseTimes :
          SubmitAnswerView(nickname, question_id, selected_option, response_time)

SpecChannels == InitChannels /\ [][NextChannels]_vars

(* A session on the quiz with the short time limit: every connection sends *)
(* every event, one handler at a time, while the clock runs past the limit. *)
InitClock ==
    /\ sessions = [p \in {ThePin} |-> NewSession("quiz2")]
    /\ players = <<>>
    /\ answers = <<>>
    /\ runtime = [p \in {ThePin} |-> EmptyRuntime]
    /\ rooms = [p \in {ThePin} |-> {}]
    /\ connected = {}
    /\ nextSid = 0
    /\ tasks = [t \in TaskIds |-> IdleTask]
    /\ now = 0
    /\ out = <<>>
    /\ ended = {}

NextClock ==
    \/ Connect
    \/ Tick
    \/ Events({}, {ThePin}, TimedNames)
    \/ \E t \in TaskIds : Resume(t)

SpecClock == InitClock /\ [][NextClock]_vars

(* Sessions are opened over REST in a code space of three PINs, of which    *)
(* any are taken at the start; a request that is being served goes on.      *)
InitPin ==
    /\ \E taken \in SUBSET PinSpace :
          /\ sessions = [p \in taken |-> NewSession("quiz1")]
          /\ runtime = [p \in taken |-> EmptyRuntime]
          /\ rooms = [p \in taken |-> {}]
    /\ players = <<>>
    /\ answers = <<>>
    /\ connected = {}
    /\ nextSid = 0
    /\ tasks = [t \in TaskIds |-> IdleTask]
    /\ now = 0
    /\ out = <<>>
    /\ ended = {}

NextPin ==
    \/ \E t \in Slots({"start_session"}, "start_session"), quiz_id \in {"quiz1", "none"} :
          StartSession(t, quiz_id)
    \/ \E t \in TaskIds : PinAttempt(t)
    \/ \E t \in TaskIds : StartSessionCommit(t)

SpecPin ==
    /\ InitPin
    /\ [][NextPin]_vars
    /\ \A t \in TaskIds : WF_vars(PinAttempt(t))

(* The scoring of submit_answer over its inputs.  A round is under way: the *)
(* host and one player have joined, the session is in_progress on either    *)
(* question of either quiz, and the question-start time and the clock are   *)
(* any two readings, the clock possibly behind the start time.              *)
ClockInputs == {k * TickSeconds : k \in 0..MaxClock}

InitScore ==
    /\ \E quiz \in QuizIds, idx \in QIndexInputs :
           sessions = [p \in {ThePin} |->
                          [NewSession(quiz) EXCEPT !.status = "in_progress",
                                                   !.current_question_index = idx]]
    /\ players = <<NewPlayer(ThePin, HostSid + 1, <<"a", "l">>)>>
    /\ answers = <<>>
    /\ \E started \in ClockInputs :
           runtime = [p \in {ThePin} |->
                         [exists |-> TRUE, host_sid |-> HostSid,
                          question_started_at |-> started, answered |-> {}]]
    /\ rooms = [p \in {ThePin} |-> {HostSid, HostSid + 1}]
    /\ connected = {HostSid, HostSid + 1}
    /\ nextSid = HostSid + 1
    /\ tasks = [t \in TaskIds |-> IdleTask]
    /\ now \in ClockInputs
    /\ out = <<>>
    /\ ended = {}

NextScore ==
    \/ \E t \in Slots({}, "submit_answer"), qidx \in QIndexInputs, opt \in OptionInputs :
          SubmitAnswer(t, HostSid + 1, ThePin, qidx, opt)
    \/ \E t \in TaskIds : SubmitPlayer(t)
    \/ \E t \in TaskIds : SubmitQuiz(t)
    \/ \E t \in TaskIds : SubmitCommit(t)

SpecScore == InitScore /\ [][NextScore]_vars
(* ------------------------------- claims ------------------------------- *)
Pins == DOMAIN sessions

RoomEvents(kind, evs, pin) ==
    {i \in 1..Len(evs) : evs[i].kind = kind /\ evs[i].room = pin}

(* C1: the Answer table holds at most one row for every (session, player,  *)
(* question_index) triple.                                                  *)
C1_AnswerUnique ==
    \A a, b \in 1..Len(answers) :
        (/\ answers[a].session_id = answers[b].session_id
         /\ answers[a].player_id = answers[b].player_id
         /\ answers[a].question_index = answers[b].question_index) => a = b

(* C2: finished is terminal: once the status of a session is finished no   *)
(* step changes it to anything else.                                        *)
C2_FinishedTerminal ==
    [][\A p \in Pins : sessions[p].status = "finished"
                          => sessions'[p].status = "finished"]_vars

(* C3: every change of a session's status is lobby to in_progress or       *)
(* in_progress to finished; in particular never lobby to finished.          *)
C3_NoSkippedState ==
    [][\A p \in Pins :
          sessions'[p].status # sessions[p].status =>
              \/ sessions[p].status = "lobby" /\ sessions'[p].status = "in_progress"
              \/ sessions[p].status = "in_progress" /\ sessions'[p].status = "finished"]_vars

(* C4: while a session is in_progress its current_question_index never     *)
(* decreases.                                                               *)
C4_IndexMonotone ==
    [][\A p \in Pins :
          (sessions[p].status = "in_progress" /\ sessions'[p].status = "in_progress")
              => sessions'[p].current_question_index >= sessions[p].current_question_index]_vars

(* C5: in every state the current_question_index of a session is -1        *)
(* exactly when its status is lobby.                                        *)
C5_IndexLobby ==
    \A p \in Pins : (sessions[p].current_question_index = -1) <=> (sessions[p].status = "lobby")

(* a start_game, next_question or end_game of connection sid for pin *)
HostIntent(t, sid, pin) ==
    \/ StartGame(t, sid, pin)
    \/ NextQuestion(t, sid, pin)
    \/ EndGame(t, sid, pin)

NotAuthorized == {"Only host can start", "Only host can advance", "Only host can end"}

(* C6: a start_game, next_question or end_game of a connection that is not *)
(* the session's host handle ends with one error to that connection, and   *)
(* leaves the session row, the players, the answers, the host handle, the   *)
(* question-start time and the answered set as they were; nothing goes to  *)
(* the room and the handler is over.                                        *)
C6_NonHostRejected ==
    [][\A t \in TaskIds, sid \in SidInputs, p \in Pins :
          (runtime[p].host_sid # sid /\ HostIntent(t, sid, p)) =>
              /\ Len(out') = 1
              /\ out'[1].kind = "error"
              /\ out'[1].sid = sid
              /\ out'[1].room = NoPin
              /\ out'[1].data.detail \in NotAuthorized
              /\ sessions' = sessions
              /\ players' = players
              /\ answers' = answers
              /\ runtime'[p].host_sid = runtime[p].host_sid
              /\ runtime'[p].question_started_at = runtime[p].question_started_at
              /\ runtime'[p].answered = runtime[p].answered
              /\ tasks' = tasks
              /\ ended' = ended]_vars

(* C6 witness: a connection other than the joined host has just been       *)
(* refused to advance a game in progress.                                   *)
C6_Witness ==
    \E sid \in SidInputs :
        /\ out = <<ErrorEvent(sid, "Only host can advance")>>
        /\ runtime[ThePin].host_sid \notin {NoSid, sid}
        /\ sessions[ThePin].status = "in_progress"

(* C7: every question that a next_question handler broadcasts comes with   *)
(* one step of the persisted index: two handlers do not both succeed from   *)
(* the same observed index.                                                 *)
C7_AdvanceSerialized ==
    [][\A t \in TaskIds :
          NextCommit(t) =>
              sessions'[tasks[t].pin].current_question_index
                  = sessions[tasks[t].pin].current_question_index + 1]_vars

(* C8: an end_game or a finalizing next_question on a finished session     *)
(* leaves the status and the ended timestamp as they were, and game_ended  *)
(* is broadcast to a room at most once.                                     *)
C8_FinalizeOnce ==
    [][\A t \in TaskIds :
          tasks[t].op \in {"end_game", "next_question"} =>
              LET p == tasks[t].pin IN
              /\ (FinalizeCommit(t) /\ sessions[p].status = "finished")
                    => sessions'[p] = sessions[p]
              /\ ((LeaderboardPlayers(t) \/ LeaderboardCount(t)) /\ p \in ended)
                    => RoomEvents("game_ended", out', p) = {}]_vars

(* C9: there is at most one Player row per session and lower-cased name. *)
C9_PlayerNameUnique ==
    \A i, j \in PlayerIds :
        (/\ players[i].session_id = players[j].session_id
         /\ Lower(players[i].name) = Lower(players[j].name)) => i = j

(* C10: the persisted score of a player never decreases. *)
C10_ScoreMonotone ==
    [][\A i \in PlayerIds : players'[i].score >= players[i].score]_vars

(* an Answer row of player pid for question qidx of session pin *)
HasAnswer(pin, pid, qidx) ==
    \E a \in 1..Len(answers) : /\ answers[a].session_id = pin
                                /\ answers[a].player_id = pid
                                /\ answers[a].question_index = qidx

(* C11: when a player who already has an accepted answer for the current   *)
(* question index submits again for that index, the submitter alone gets    *)
(* answer_ack with accepted false, and the scores, the answered set and the *)
(* Answer rows stay as they were.                                           *)
C11_DuplicateRejected ==
    [][\A t \in TaskIds :
          LET me == tasks[t] IN
          (/\ SubmitQuiz(t)
           /\ me.qidx = sessions[me.pin].current_question_index
           /\ HasAnswer(me.pin, me.pid, me.qidx)) =>
              /\ out' = <<ToSid("answer_ack", me.sid,
                                [accepted |-> FALSE, reason |-> "Already answered"])>>
              /\ players' = players
              /\ answers' = answers
              /\ runtime'[me.pin].answered = runtime[me.pin].answered]_vars

(* a submit_answer step refused: one error to the submitter, no score, no  *)
(* Answer row and no answered-set entry changed, and the handler is over    *)
SubmitRejected(t, sid, pin) ==
    /\ Len(out') = 1
    /\ out'[1].kind = "error"
    /\ out'[1].sid = sid
    /\ out'[1].room = NoPin
    /\ players' = players
    /\ answers' = answers
    /\ runtime'[pin].answered = runtime[pin].answered
    /\ tasks'[t] = IdleTask

(* C12: submit_answer is refused with an error to the submitter, changing   *)
(* no score, Answer row or answered-set entry, when the session is not      *)
(* in_progress, when the connection is not the handle of a player of the    *)
(* session, and when the submitted index is not the session's current one.  *)
C12_SubmitRejected ==
    [][\A t \in TaskIds :
          /\ \A sid \in SidInputs, p \in Pins, qidx \in QIndexInputs, opt \in OptionInputs :
                (sessions[p].status # "in_progress" /\ SubmitAnswer(t, sid, p, qidx, opt))
                    => SubmitRejected(t, sid, p)
          /\ (/\ \A i \in PlayerIds : ~(/\ players[i].session_id = tasks[t].pin
                                         /\ players[i].sid = tasks[t].sid)
              /\ SubmitPlayer(t))
                    => SubmitRejected(t, tasks[t].sid, tasks[t].pin)
          /\ (/\ tasks[t].pin \in Pins
              /\ tasks[t].qidx # sessions[tasks[t].pin].current_question_index
              /\ SubmitQuiz(t))
                    => SubmitRejected(t, tasks[t].sid, tasks[t].pin)]_vars

(* C12 witness: a player of a game in progress has just been refused an     *)
(* answer for a question that is not the current one.                       *)
C12_Witness ==
    \E sid \in SidInputs :
        /\ out = <<ErrorEvent(sid, "Question mismatch")>>
        /\ sessions[ThePin].status = "in_progress"
        /\ \E i \in PlayerIds : players[i].sid = sid /\ players[i].session_id = ThePin

(* the question an Answer row answers *)
QuestionOf(a) == PyIndex(SelectQuiz(sessions[a.session_id].quiz_id), a.question_index)

(* C13: every accepted answer is awarded 0 points when the selected option  *)
(* is not the question's correct option, and between 600 and 1000 points    *)
(* when it is, whatever the time elapsed and the time limit.                *)
C13_PointsRange ==
    \A a \in 1..Len(answers) :
        IF answers[a].selected_option_id = QuestionOf(answers[a]).correct_option_id
        THEN /\ answers[a].points_awarded >= BasePoints
             /\ answers[a].points_awarded <= BasePoints + BonusRange
        ELSE answers[a].points_awarded = 0

(* C13 witness: a correct answer given after the time limit has run out has *)
(* been accepted for the base points.                                       *)
C13_Witness ==
    \E a \in 1..Len(answers) :
        /\ answers[a].selected_option_id = QuestionOf(answers[a]).correct_option_id
        /\ answers[a].response_time_ms > QuestionOf(answers[a]).time_limit_seconds * 1000
        /\ answers[a].points_awarded = BasePoints

(* the leaderboard that the step of handler t hands to its caller *)
BoardReturned(t) ==
    /\ tasks[t].pc \in {"lb_players", "lb_count"}
    /\ tasks'[t].pc = "idle"
    /\ LeaderboardPlayers(t) \/ LeaderboardCount(t)

(* C14: in every state of a session compute_leaderboard returns one entry   *)
(* for each Player row of the session and no other, players without         *)
(* answers included, each with the player's score, in an order in which     *)
(* the score never increases.                                               *)
C14_Leaderboard ==
    [][\A t \in TaskIds :
          BoardReturned(t) =>
              LET board == out'[1].data.leaderboard
                  ids == SessionPlayers(tasks[t].pin)
              IN
              /\ Len(out') = 1
              /\ Len(board) = Cardinality(ids)
              /\ {board[i].player_id : i \in 1..Len(board)} = ids
              /\ \A i \in 1..Len(board) : board[i].score = players[board[i].player_id].score
              /\ \A i, j \in 1..Len(board) : i < j => board[i].score >= board[j].score]_vars

(* C14 witness: the leaderboard of a game in progress has been read over    *)
(* REST; the player who joined second leads it, and the other player, who   *)
(* has no answer, is on it with score 0.                                    *)
C14_Witness ==
    /\ Len(out) = 1
    /\ out[1].kind = "http"
    /\ sessions[ThePin].status = "in_progress"
    /\ LET board == out[1].data.leaderboard IN
        /\ Len(board) = 2
        /\ board[1].player_id > board[2].player_id
        /\ board[1].score > board[2].score
        /\ \A q \in QIndexInputs : ~HasAnswer(ThePin, board[2].player_id, q)

(* the persisted state after the step holds what the event ev reports *)
Committed(ev) ==
    /\ (ev.kind = "question_started" /\ ev.room # NoPin) =>
           sessions'[ev.room].current_question_index = ev.data.question_index
    /\ (ev.kind = "game_ended" /\ ev.room # NoPin) =>
           sessions'[ev.room].status = "finished"
    /\ (ev.kind = "answer_ack" /\ ev.data.accepted) =>
           \E i \in 1..Len(players'), a \in 1..Len(answers') :
               /\ players'[i].sid = ev.sid
               /\ players'[i].score = ev.data.total_score
               /\ answers'[a].player_id = i
               /\ answers'[a].points_awarded = ev.data.points
               /\ (answers'[a].is_correct = 1) = ev.data.is_correct
    /\ (ev.kind = "join_success" /\ ev.data.role = "player") =>
           \E i \in 1..Len(players') :
               /\ players'[i].sid = ev.sid
               /\ players'[i].session_id = ev.data.pin
               /\ Lower(players'[i].name) = Lower(ev.data.player_name)
    /\ ev.kind = "lobby_update" =>
           \A n \in 1..Len(ev.data.players) :
               LET e == ev.data.players[n] IN
               /\ e.id \in 1..Len(players')
               /\ players'[e.id].session_id = ev.data.pin
               /\ players'[e.id].name = e.name
               /\ players'[e.id].score = e.score

(* C15: an event that reports a durable change is emitted only once the     *)
(* change is committed: question_started after the new status and index,    *)
(* game_ended after status finished, answer_ack with accepted true after    *)
(* the Answer row and the score, join_success and lobby_update after the    *)
(* Player row.                                                              *)
C15_CommitBeforeEmit ==
    [][/\ \A n \in 1..Len(out') : Committed(out'[n])
       /\ \A t \in TaskIds :
             StartCommit(t) => /\ sessions'[tasks[t].pin].status = "in_progress"
                               /\ sessions'[tasks[t].pin].current_question_index = 0]_vars

(* C15 witness: a correct answer has just been acknowledged, and the score  *)
(* it reports is the persisted score of the player.                         *)
C15_Witness ==
    /\ Len(out) = 1
    /\ out[1].kind = "answer_ack"
    /\ out[1].data.accepted
    /\ out[1].data.points > 0
    /\ \E i \in PlayerIds : /\ players[i].sid = out[1].sid
                             /\ players[i].score = out[1].data.total_score
                             /\ HasAnswer(ThePin, i, sessions[ThePin].current_question_index)

(* no handler is suspended at one of the commits pcs *)
NoneAt(pcs) == \A t \in TaskIds : tasks[t].pc \notin pcs

(* C16: a failed commit leaves no partially-applied state.  With no         *)
(* submit_answer waiting for its commit, every player in the answered set   *)
(* of a question has an Answer row for it, so a failed submit_answer has    *)
(* left nobody there; and with no start_game or next_question waiting for   *)
(* its commit, a session that is persisted as never started has the         *)
(* question-start time and the answered set the runtime began with, so a    *)
(* failed start_game or next_question has left them as they were.           *)
C16_NoPartialState ==
    \A p \in Pins :
        /\ NoneAt({"a_commit"}) =>
               \A e \in runtime[p].answered : HasAnswer(p, e[2], e[1])
        /\ (/\ NoneAt({"s_commit", "n_commit"})
            /\ sessions[p].status = "lobby"
            /\ sessions[p].current_question_index = -1) =>
               /\ runtime[p].question_started_at = NoTime
               /\ runtime[p].answered = {}

(* C17: the host is the last connection to join as host.  A join_room with  *)
(* role host by a connection makes it the host handle of the session, and   *)
(* no other step changes the handle; of the connections that have joined as *)
(* host, the one that is the handle has its start_game, next_question and   *)
(* end_game taken up, and every other one is refused as not authorized.     *)
C17_LastHostWins ==
    [][\A p \in Pins :
          /\ \A t \in TaskIds, sid \in SidInputs :
                JoinRoom(t, sid, p, "host", NoName) => runtime'[p].host_sid = sid
          /\ runtime'[p].host_sid # runtime[p].host_sid =>
                \E t \in TaskIds, sid \in SidInputs : JoinRoom(t, sid, p, "host", NoName)
          /\ \A t \in TaskIds, sid \in rooms[p] :
                HostIntent(t, sid, p) =>
                    IF sid = runtime[p].host_sid
                    THEN /\ out' = <<>>
                         /\ tasks'[t].op \in {"start_game", "next_question", "end_game"}
                         /\ tasks'[t].sid = sid
                    ELSE /\ Len(out') = 1
                         /\ out'[1] \in {ErrorEvent(sid, d) : d \in NotAuthorized}
                         /\ tasks' = tasks]_vars

(* C17 witness: both connections have joined as host, the second one last,  *)
(* and the first has just been refused to start the game.                   *)
C17_Witness ==
    /\ rooms[ThePin] = {HostSid, HostSid + 1}
    /\ runtime[ThePin].host_sid = HostSid + 1
    /\ out = <<ErrorEvent(HostSid, "Only host can start")>>

ResyncKinds == {"question_started", "game_ended"}

(* C19: a successful join_room, of a host or of a player, ends by sending   *)
(* the joining connection alone the event that brings it up to date:        *)
(* question_started with the session's current index when the session is    *)
(* in_progress, game_ended with the leaderboard when it is finished, and    *)
(* neither in the lobby; before its end the handler sends neither.          *)
C19_JoinResync ==
    [][\A t \in TaskIds :
          (tasks[t].op = "join_room" /\ tasks'[t] # tasks[t]) =>
              LET me == tasks[t]
                  session == sessions[me.pin]
              IN
              IF tasks'[t].op = "join_room"
              THEN \A n \in 1..Len(out') : out'[n].kind \notin ResyncKinds
              ELSE IF me.pc \notin {"l_players", "g_quiz", "lb_players", "lb_count"}
              THEN TRUE
              ELSE IF session.status = "in_progress" /\ session.current_question_index >= 0
              THEN /\ Len(out') = 1
                   /\ out'[1].kind = "question_started"
                   /\ out'[1].sid = me.sid
                   /\ out'[1].room = NoPin
                   /\ out'[1].data.question_index = session.current_question_index
              ELSE IF session.status = "finished"
              THEN /\ Len(out') = 1
                   /\ out'[1].kind = "game_ended"
                   /\ out'[1].sid = me.sid
                   /\ out'[1].room = NoPin
                   /\ Len(out'[1].data.leaderboard) = Cardinality(SessionPlayers(me.pin))
              ELSE \A n \in 1..Len(out') : out'[n].kind \notin ResyncKinds]_vars

(* C19 witness: a player who joined while the second question was on has   *)
(* just been sent that question, and no handler is left in flight.          *)
C19_Witness ==
    /\ \A t \in TaskIds : tasks[t].op = "idle"
    /\ sessions[ThePin].status = "in_progress"
    /\ Len(out) = 1
    /\ out[1].kind = "question_started"
    /\ out[1].sid = HostSid + 1
    /\ out[1].data.question_index = 1
    /\ \E i \in PlayerIds : players[i].sid = HostSid + 1

(* the event ev, sent to one connection, agrees with the persisted session *)
MatchesSession(ev, session) ==
    /\ ev.kind = "question_started" =>
           /\ session.status = "in_progress"
           /\ session.current_question_index = ev.data.question_index
    /\ ev.kind = "game_ended" => session.status = "finished"

(* C20: the view of a joined connection converges.  When the step that      *)
(* ends a join_room leaves no handler in flight, the question_started or    *)
(* game_ended it sends the joining connection, which is then the last one   *)
(* delivered to it, agrees with the persisted status and index of the       *)
(* session, also when the host's next_question or end_game ran between the  *)
(* awaits of the join.                                                      *)
C20_ViewConverges ==
    [][\A t \in TaskIds :
          (/\ tasks[t].op = "join_room"
           /\ tasks'[t].op = "idle"
           /\ \A u \in TaskIds : tasks'[u].op = "idle") =>
              \A n \in 1..Len(out') :
                  (out'[n].kind \in ResyncKinds /\ out'[n].sid = tasks[t].sid)
                      => MatchesSession(out'[n], sessions'[tasks[t].pin])]_vars

(* C21: no question_started, to the room or to one connection, carries the *)
(* correct option label of the question: its payload is the index, the      *)
(* prompt, the options and the time limit, and nothing else.                *)
C21_NoCorrectLabel ==
    \A n \in 1..Len(out) :
        out[n].kind = "question_started" =>
            /\ DOMAIN out[n].data = {"question_index", "question"}
            /\ DOMAIN out[n].data.question = {"question", "options", "time_limit_seconds"}
            /\ \A o \in 1..Len(out[n].data.question.options) :
                   DOMAIN out[n].data.question.options[o] = {"id", "text"}

(* C21 witness: the second question, whose correct option is among the      *)
(* options sent, has just been broadcast to a room with a player in it.     *)
C21_Witness ==
    /\ Len(out) = 1
    /\ out[1].kind = "question_started"
    /\ out[1].room = ThePin
    /\ out[1].data.question_index = 1
    /\ \E o \in 1..Len(out[1].data.question.options) :
           out[1].data.question.options[o].id = Questions[2].correct_option_id
    /\ \E i \in PlayerIds : players[i].sid \in rooms[ThePin]

(* the connections an event is delivered to *)
Receivers(ev) == IF ev.room # NoPin THEN rooms[ev.room] ELSE {ev.sid} \ {NoSid}

(* C22: an answer does not leak before the round closes.  Points are 0 for  *)
(* a wrong option and at least 600 for the correct one, so what another     *)
(* connection is shown is the same for both options only if it leaves the   *)
(* points of the round out: while the session is in_progress on the         *)
(* question of an Answer row with points, every lobby_update delivered to a *)
(* connection other than the player's shows that player's score without     *)
(* those points.                                                            *)
C22_NoAnswerLeak ==
    \A n \in 1..Len(out) :
        out[n].kind = "lobby_update" =>
            \A m \in 1..Len(out[n].data.players), a \in 1..Len(answers) :
                LET e == out[n].data.players[m]
                    pin == out[n].data.pin
                IN
                (/\ sessions[pin].status = "in_progress"
                 /\ answers[a].session_id = pin
                 /\ answers[a].player_id = e.id
                 /\ answers[a].question_index = sessions[pin].current_question_index
                 /\ answers[a].points_awarded > 0
                 /\ Receivers(out[n]) \ {players[e.id].sid} # {})
                    => e.score + answers[a].points_awarded <= players[e.id].score

(* C23: a host next_question on an in_progress session on question i of n.  *)
(* If i+1 < n the question-start time is reset to the clock, the persisted  *)
(* index becomes i+1 with the status unchanged, and question i+1 is         *)
(* broadcast to the room; if i+1 >= n the index is unchanged, the status    *)
(* becomes finished, and game_ended with the leaderboard of the session's   *)
(* players is broadcast to the room.                                        *)
C23_NextQuestion ==
    [][\A t \in TaskIds :
          LET me == tasks[t]
              session == sessions[me.pin]
              i == session.current_question_index
              n == Len(SelectQuiz(session.quiz_id))
          IN
          (me.op = "next_question" /\ tasks'[t] # me) =>
              IF me.pc \in {"lb_players", "lb_count"}
              THEN tasks'[t] = IdleTask =>
                      /\ session.status = "finished"
                      /\ Len(out') = 1
                      /\ out'[1].kind = "game_ended"
                      /\ out'[1].room = me.pin
                      /\ {out'[1].data.leaderboard[k].player_id :
                              k \in 1..Len(out'[1].data.leaderboard)} = SessionPlayers(me.pin)
              ELSE IF session.status # "in_progress"
              THEN TRUE
              ELSE IF me.pc = "n_quiz"
              THEN IF i + 1 < n
                   THEN /\ tasks'[t].pc = "n_commit"
                        /\ runtime'[me.pin].question_started_at = now
                        /\ sessions' = sessions
                   ELSE /\ tasks'[t].pc = "f_commit"
                        /\ runtime' = runtime
                        /\ sessions' = sessions
              ELSE IF me.pc = "n_commit"
              THEN /\ i + 1 < n
                   /\ sessions'[me.pin] = [session EXCEPT !.current_question_index = i + 1]
                   /\ out' = <<ToRoom("question_started", me.pin,
                                      QuestionPayload(i + 1, SelectQuiz(session.quiz_id)[i + 2]))>>
                   /\ tasks'[t] = IdleTask
              ELSE IF me.pc = "f_commit"
              THEN /\ i + 1 >= n
                   /\ sessions'[me.pin].current_question_index = i
                   /\ sessions'[me.pin].status = "finished"
                   /\ tasks'[t].pc = "lb_players"
              ELSE TRUE]_vars

(* C23 witness: the host has advanced from the first question after the     *)
(* clock moved on: the second question has just been broadcast, the         *)
(* persisted index is 1 and the question-start time is the new reading.     *)
C23_Witness ==
    /\ Len(out) = 1
    /\ out[1].kind = "question_started"
    /\ out[1].room = ThePin
    /\ out[1].data.question_index = 1
    /\ sessions[ThePin].status = "in_progress"
    /\ sessions[ThePin].current_question_index = 1
    /\ now > 0
    /\ runtime[ThePin].question_started_at = now

InProgress(p) == sessions[p].status = "in_progress"

LastIndex(p) == Len(SelectQuiz(sessions[p].quiz_id)) - 1

(* a next_question handler of an in_progress session commits: the index    *)
(* goes up by one, or the status becomes finished                           *)
AdvanceOrFinish ==
    \A t \in TaskIds :
        (tasks[t].op = "next_question" /\ InProgress(tasks[t].pin)) =>
            /\ NextCommit(t) =>
                  sessions'[tasks[t].pin].current_question_index
                      = sessions[tasks[t].pin].current_question_index + 1
            /\ FinalizeCommit(t) => sessions'[tasks[t].pin].status = "finished"

Generating(t) == tasks[t].pc = "p_try"

(* C25: PIN generation terminates.  It makes at most 30 attempts; the PIN   *)
(* it returns is one no session has; when the last attempt too samples a    *)
(* taken PIN the request fails with HTTP 500; and a generation under way    *)
(* always comes to an end.                                                  *)
C25_PinGeneration ==
    /\ [](\A t \in TaskIds :
             tasks[t].op = "start_session" => tasks[t].k <= MaxPinAttempts)
    /\ [][\A t \in TaskIds :
             (Generating(t) /\ tasks'[t] # tasks[t]) =>
                 IF tasks'[t].pc = "p_commit"
                 THEN tasks'[t].pin \in PinSpace \ DOMAIN sessions
                 ELSE IF tasks'[t].pc = "p_try"
                 THEN tasks'[t].k = tasks[t].k + 1 /\ tasks'[t].k < MaxPinAttempts
                 ELSE /\ tasks[t].k = MaxPinAttempts - 1
                      /\ out' = <<SessionResponse(500, NoPin)>>
                      /\ sessions' = sessions]_vars
    /\ \A t \in TaskIds : Generating(t) ~> ~Generating(t)

(* C25 witness: with every PIN of the code space taken, a request has just  *)
(* been refused with HTTP 500.                                              *)
C25_Witness ==
    /\ DOMAIN sessions = PinSpace
    /\ out = <<SessionResponse(500, NoPin)>>
    /\ \A t \in TaskIds : tasks[t].op = "idle"

(* disconnect(c) comes to its end in this step: at once when no row has the *)
(* handle, at the commit otherwise                                          *)
DisconnectCompletes(t, c) ==
    \/ /\ tasks[t].pc = "d_commit"
       /\ tasks[t].sid = c
       /\ DisconnectCommit(t)
    \/ /\ c \in connected
       /\ \A i \in PlayerIds : players[i].sid # c
       /\ Disconnect(t, c)

(* C26: when disconnect(c) completes no Player row has the handle c, and    *)
(* the Player rows, their scores, the Answer rows, and every session's      *)
(* status, index and runtime host handle are as before.                     *)
C26_DisconnectFrame ==
    [][\A t \in TaskIds, c \in SidInputs :
          DisconnectCompletes(t, c) =>
              /\ \A i \in DOMAIN players' : players'[i].sid # c
              /\ DOMAIN players' = DOMAIN players
              /\ \A i \in DOMAIN players :
                    [players'[i] EXCEPT !.sid = NoSid] = [players[i] EXCEPT !.sid = NoSid]
              /\ answers' = answers
              /\ sessions' = sessions
              /\ \A p \in Pins : runtime'[p].host_sid = runtime[p].host_sid]_vars

HostOps == {"start_game", "next_question", "end_game"}

(* the time limit of the question on display has run out *)
Expired(p) ==
    /\ sessions[p].status = "in_progress"
    /\ runtime[p].question_started_at # NoTime
    /\ now - runtime[p].question_started_at
          >= PyIndex(SelectQuiz(sessions[p].quiz_id),
                     sessions[p].current_question_index).time_limit_seconds

(* C27: only host actions move a round.  A step that changes a session's    *)
(* status or current_question_index is a step of start_game, next_question  *)
(* or end_game on that session, sent by the connection that is its host     *)
(* handle; join_room, submit_answer, disconnect and the passing of time     *)
(* leave both as they are.                                                  *)
C27_OnlyHostMoves ==
    [][/\ \A p \in Pins :
            (\/ sessions'[p].status # sessions[p].status
             \/ sessions'[p].current_question_index # sessions[p].current_question_index)
            => \E t \in TaskIds : /\ tasks[t].op \in HostOps
                                  /\ tasks[t].pin = p
                                  /\ tasks[t].sid = runtime[p].host_sid
                                  /\ tasks'[t] # tasks[t]
       /\ \A t \in TaskIds :
            (tasks[t].op = "idle" /\ tasks'[t].op \in HostOps)
            => tasks'[t].sid = runtime'[tasks'[t].pin].host_sid
       /\ now' # now => sessions' = sessions]_vars

(* C27 witness: the time limit of question 0 has run out, a player's answer *)
(* has just been acknowledged, and the session is still on question 0.      *)
C27_Witness ==
    /\ Expired(ThePin)
    /\ sessions[ThePin].current_question_index = 0
    /\ Len(out) = 1
    /\ out[1].kind = "answer_ack"
    /\ out[1].data.accepted

(* C28: in the channel-group variant, when a host's next_question stays     *)
(* within bounds, the question sent to the group is the one at the index    *)
(* the step before has persisted: the message carries the persisted         *)
(* current_question_index and the question at that index.                   *)
C28_BroadcastsNewIndex ==
    [][\A t \in TaskIds :
          (/\ tasks[t].op = "quiz_next_question"
           /\ tasks[t].pc = "q_send"
           /\ SendCurrentSynchronizedQuestion(t))
          => LET index == sessions[tasks[t].pin].current_question_index IN
             /\ Len(out') = 1
             /\ out'[1].kind = "synchronized_question"
             /\ out'[1].room = tasks[t].pin
             /\ out'[1].data.question.index = index
             /\ out'[1].data.question.id = QuestionRows[index + 1].id]_vars

(* C29: in the channel-group variant the score stored with a correct        *)
(* answer is between 100 and 150, and the score stored with an incorrect    *)
(* or empty answer is 0, whatever response_time the client sent.            *)
C29_ScoreRange ==
    \A a \in 1..Len(answers) :
        IF answers[a].is_correct
        THEN BaseScore <= answers[a].score /\ answers[a].score <= BaseScore + BonusScore
        ELSE answers[a].score = 0

(* C30: in the channel-group variant an Answer is not changed once it       *)
(* exists: when save_answer runs for a participant and question that have   *)
(* an Answer, its selected option, correctness and score, and the           *)
(* participant's total_score, correct_answers and total_response_time,      *)
(* stay as they were.                                                       *)
C30_AnswerImmutable ==
    [][\A t \in TaskIds, i \in PlayerIds, a \in 1..Len(answers) :
          (/\ tasks[t].pc = "q_save"
           /\ i \in ParticipantsNamed(tasks[t].pin, tasks[t].name)
           /\ a \in AnswersOf(answers, i, tasks[t].qidx)
           /\ SaveAnswer(t))
          => /\ answers'[a].selected_option = answers[a].selected_option
             /\ answers'[a].is_correct = answers[a].is_correct
             /\ answers'[a].score = answers[a].score
             /\ players'[i] = players[i]]_vars

Quiescent == \A t \in TaskIds : tasks[t].op = "idle"

(* the sum of points_awarded over the Answer rows of player i *)
RECURSIVE SumPoints(_, _)
SumPoints(rows, i) ==
    IF rows = <<>> THEN 0
    ELSE (IF Head(rows).player_id = i THEN Head(rows).points_awarded ELSE 0)
           + SumPoints(Tail(rows), i)

(* C31: with no handler in flight, every player's score is the sum of       *)
(* points_awarded over that player's Answer rows, also after submit_answer  *)
(* handlers of one connection have interleaved with the host's              *)
(* next_question.                                                           *)
C31_ScoreIsSum ==
    Quiescent => \A i \in PlayerIds : players[i].score = SumPoints(answers, i)

(* C32: question_started goes to a room only while the session's persisted  *)
(* status is in_progress, and never after game_ended has gone to that room. *)
C32_QuestionOnlyInProgress ==
    \A p \in Pins :
        RoomEvents("question_started", out, p) # {}
            => sessions[p].status = "in_progress" /\ p \notin ended

(* C33: the leaderboard of game_ended is final.  Once game_ended has gone   *)
(* to a session's room, no player of the session changes score and no       *)
(* Answer row of the session is added.                                      *)
C33_LeaderboardFinal ==
    [][\A p \in ended :
          /\ \A i \in PlayerIds :
                players[i].session_id = p => players'[i].score = players[i].score
          /\ \A a \in 1..Len(answers') :
                answers'[a].session_id = p => a <= Len(answers)]_vars

(* C34: an accepted answer belongs to the round that is open.  When the     *)
(* Answer row for question index i is committed, the session is             *)
(* in_progress and i is its persisted current_question_index.               *)
C34_AcceptedInOwnRound ==
    [][\A t \in TaskIds :
          (tasks[t].pc = "a_commit" /\ SubmitCommit(t))
          => /\ sessions[tasks[t].pin].current_question_index = tasks[t].qidx
             /\ sessions[tasks[t].pin].status = "in_progress"]_vars

JoinErrors == {"Invalid PIN", "Game not found", "Name too short"}

(* C35: a join_room that fails changes no state.  A step that answers a     *)
(* connection with one of join_room's errors leaves the rooms' members,     *)
(* the tables and the runtime registry as they were.                        *)
C35_FailedJoinNoChange ==
    [][\A sid \in SidInputs, detail \in JoinErrors :
          (tasks = [t \in TaskIds |-> IdleTask] /\ out' = <<ErrorEvent(sid, detail)>>)
          => /\ rooms' = rooms
             /\ sessions' = sessions
             /\ players' = players
             /\ answers' = answers
             /\ runtime' = runtime]_vars

(* C36: a connection handle is on at most one Player row, over all          *)
(* sessions.                                                                *)
C36_HandleUnique ==
    \A i, j \in PlayerIds :
        (players[i].sid # NoSid /\ players[i].sid = players[j].sid) => i = j

(* C37: a stale disconnect does not detach a player who has reconnected.    *)
(* The commit of disconnect(c) clears the handle of a Player row only while *)
(* that handle is c.                                                        *)
C37_StaleDisconnectHarmless ==
    [][\A t \in TaskIds :
          (tasks[t].pc = "d_commit" /\ DisconnectCommit(t))
          => \A i \in PlayerIds :
                players'[i].sid # players[i].sid => players[i].sid = tasks[t].sid]_vars

(* the rows of session p in a table *)
RowsOf(rows, p) == {i \in 1..Len(rows) : rows[i].session_id = p}

(* nothing of session p is changed by the step and nothing goes to its room *)
Untouched(p) ==
    /\ sessions'[p] = sessions[p]
    /\ runtime'[p] = runtime[p]
    /\ RowsOf(players', p) = RowsOf(players, p)
    /\ \A i \in RowsOf(players, p) : players'[i] = players[i]
    /\ RowsOf(answers', p) = RowsOf(answers, p)
    /\ \A a \in RowsOf(answers, p) : answers'[a] = answers[a]
    /\ \A e \in 1..Len(out') : out'[e].room # p

(* the step belongs to a handler of an event that carries code p *)
Carries(p) ==
    \/ \E t \in TaskIds : tasks[t].pin = p /\ tasks'[t] # tasks[t]
    \/ \E t \in TaskIds :
          /\ tasks[t].op = "idle"
          /\ \/ \E sid \in SidInputs, role \in RoleInputs, name \in TimedNames \cup {NoName} :
                   JoinRoom(t, sid, p, role, name)
             \/ \E sid \in SidInputs : StartGame(t, sid, p)
             \/ \E sid \in SidInputs, qidx \in QIndexInputs, opt \in OptionInputs :
                   SubmitAnswer(t, sid, p, qidx, opt)
             \/ \E sid \in SidInputs : NextQuestion(t, sid, p)
             \/ \E sid \in SidInputs : EndGame(t, sid, p)

(* C38: sessions are isolated.  A step of join_room, start_game,            *)
(* submit_answer, next_question or end_game with session code A leaves the  *)
(* session row, the players, the answers and the runtime entry of every     *)
(* other session as they were, and sends nothing to another session's room. *)
C38_SessionsIsolated ==
    [][\A A \in Pins, B \in Pins : (A # B /\ ~Untouched(B)) => ~Carries(A)]_vars

(* C38 witness: the player of session 111111 has a scored answer there      *)
(* while session 222222, which the same connection has joined as well, is   *)
(* still in the lobby with its player at score 0.                           *)
C38_Witness ==
    /\ sessions[ThePin].status = "in_progress"
    /\ sessions[OtherPin].status = "lobby"
    /\ RowsOf(answers, ThePin) # {}
    /\ RowsOf(answers, OtherPin) = {}
    /\ \E i \in RowsOf(players, ThePin), j \in RowsOf(players, OtherPin) :
          /\ players[i].sid = players[j].sid
          /\ players[i].score > 0
          /\ players[j].score = 0
====
